---- MODULE Spec2Model ----
(***************************************************************************)
(* A model of notion-edit: the markdown Tag tree, its serializer to        *)
(* pulldown-cmark events and the recursive-descent parser back             *)
(* (src/src/markdown), the Notion-block-to-Tag transducer                  *)
(* (src/src/markdown/notion_interop.rs) and the synchronization code that  *)
(* erases and recreates a page (src/src/notion_api/client.rs and           *)
(* src/src/main.rs).                                                       *)
(***************************************************************************)
EXTENDS Integers, Sequences, FiniteSets, TLC

VARIABLES
    \* markdown round trip: the document, its events, the parse result
    tags, events, parsed, rtpc,
    \* transducer: the fetched forest, MarkdownTagIterator's blocks and parser,
    \* the tags pulled so far, the number of blocks consumed when each was
    \* pulled, the result of the last pull
    input, blocks, parser, output, outAt, last, tpc,
    \* the server: the container's children that existed before the operation
    \* and still exist, how many there were, the blocks created since
    existing, initial, created,
    \* erase: the children the listing returned, its has_more flag, the state
    \* of the delete call for each of them, what erase_page returned
    listed, hasMore, del, eraseResult,
    \* create: the tags to publish, the create_blocks calls of
    \* notion_api/client.rs, the pending create_blocks calls of main.rs
    doc, tasks, stack,
    \* every network call issued, in order, and where the operation is
    calls, spc,
    \* the join of create_blocks: the results of the sibling calls, what the
    \* collect makes of them
    branches, joinResult, jpc,
    \* fetch: the remote forest, the get_all_block_children calls, the
    \* list-children calls issued
    remote, fetches, fetchCalls, fpc,
    \* parser on any event stream: the events, the parse result, the events
    \* of the parsed tags
    stream, parseResult, reserialized, ppc,
    \* page id: the --page-id argument, what parse_page_id returns
    page_arg, page_id, cpc

rtVars == <<tags, events, parsed, rtpc>>

trVars == <<input, blocks, parser, output, outAt, last, tpc>>

serverVars == <<existing, initial, created>>

eraseVars == <<listed, hasMore, del, eraseResult>>

createVars == <<doc, tasks, stack>>

syncVars == <<serverVars, eraseVars, createVars, calls, spc>>

joinVars == <<branches, joinResult, jpc>>

fetchVars == <<remote, fetches, fetchCalls, fpc>>

parseVars == <<stream, parseResult, reserialized, ppc>>

cliVars == <<page_arg, page_id, cpc>>

vars == <<rtVars, trVars, syncVars, joinVars, fetchVars, parseVars, cliVars>>

\* what the actions of one part leave alone
notRtVars == <<trVars, syncVars, joinVars, fetchVars, parseVars, cliVars>>

notTrVars == <<rtVars, syncVars, joinVars, fetchVars, parseVars, cliVars>>

notSyncVars == <<rtVars, trVars, joinVars, fetchVars, parseVars, cliVars>>

notJoinVars == <<rtVars, trVars, syncVars, fetchVars, parseVars, cliVars>>

notFetchVars == <<rtVars, trVars, syncVars, joinVars, parseVars, cliVars>>

notParseVars == <<rtVars, trVars, syncVars, joinVars, fetchVars, cliVars>>

notCliVars == <<rtVars, trVars, syncVars, joinVars, fetchVars, parseVars>>

(***************************************************************************)
(* Bounds                                                                  *)
(***************************************************************************)
\* total number of tags and list items of a generated document
MaxNodes == 4

\* total number of blocks of a generated remote forest
MaxBlocks == 3

\* total number of tags and list items of a document to publish
MaxPushNodes == 4

\* the number of children the container has before an erase
MaxChildren == 4

\* the number of children one list-children response returns at most
PageSize == 3

\* the number of sibling create_blocks calls one join waits for
MaxSiblings == 4

\* total number of blocks of the remote forest that is fetched
MaxRemote == 4

\* the top-level blocks and children fed to the transducer block by block
MaxStepBlocks == 4

\* the number of events of a generated event stream
MaxEvents == 7

\* the segments of a URL's path, the pieces of a segment between its hyphens,
\* the query parameters
MaxSegments == 2

MaxPieces == 2

MaxQueryPairs == 2

(***************************************************************************)
(* markdown/tag.rs: the data model                                         *)
(***************************************************************************)
RichText(s) == [text |-> s]

HeadingLevel == {1, 2, 3}

Heading(l, t) == [type |-> "Heading", level |-> l, text |-> t]

Paragraph(t) == [type |-> "Paragraph", text |-> t]

OrderedList(is) == [type |-> "OrderedList", items |-> is]

OrderedListItem(t, c) == [text |-> t, children |-> c]

\* the text payloads the generated documents carry: no run, one run, two runs
TextSamples == {<<>>, <<RichText("a")>>, <<RichText("b"), RichText("a")>>}

RECURSIVE NodesOfTags(_), NodesOfItems(_)
\* the number of tags and list items of a Tag sequence, at every depth
NodesOfTags(ts) ==
    IF ts = <<>> THEN 0
    ELSE 1 + (IF Head(ts).type = "OrderedList" THEN NodesOfItems(Head(ts).items) ELSE 0)
           + NodesOfTags(Tail(ts))

NodesOfItems(is) ==
    IF is = <<>> THEN 0
    ELSE 1 + NodesOfTags(Head(is).children) + NodesOfItems(Tail(is))

(***************************************************************************)
(* pulldown_cmark events.  tag is the pulldown_cmark::Tag kind; arg is the *)
(* heading level of a Heading, the start number of an ordered List (0 for  *)
(* List(None)), 0 otherwise.                                               *)
(***************************************************************************)
Start(k, a) == [ev |-> "Start", tag |-> k, arg |-> a, text |-> ""]

End(k, a) == [ev |-> "End", tag |-> k, arg |-> a, text |-> ""]

Text(s) == [ev |-> "Text", tag |-> "", arg |-> 0, text |-> s]

(***************************************************************************)
(* markdown/to_cmark.rs                                                    *)
(***************************************************************************)
RECURSIVE FlatMapRichText(_)
FlatMapRichText(text_parts) ==
    IF text_parts = <<>> THEN <<>>
    ELSE <<Text(Head(text_parts).text)>> \o FlatMapRichText(Tail(text_parts))

\* loses the last of several text runs
DropLastRun(text_parts) ==
    IF Len(text_parts) < 2 THEN FlatMapRichText(text_parts)
    ELSE FlatMapRichText(SubSeq(text_parts, 1, Len(text_parts) - 1))

rich_text_to_events(text_parts) == FlatMapRichText(text_parts)

RECURSIVE get_pulldown_cmark_events(_), ItemsEvents(_), ChildrenEvents(_)
\* items without the paragraph around their text: not what is emitted
ItemsEventsTight(items) ==
    IF items = <<>> THEN <<>>
    ELSE LET item == Head(items)
         IN  <<Start("Item", 0)>>
                 \o rich_text_to_events(item.text)
                 \o ChildrenEvents(item.children)
                 \o <<End("Item", 0)>>
                 \o ItemsEvents(Tail(items))

\* items without their end event: not what is emitted
ItemsEventsUnclosed(items) ==
    IF items = <<>> THEN <<>>
    ELSE LET item == Head(items)
         IN  <<Start("Item", 0), Start("Paragraph", 0)>>
                 \o rich_text_to_events(item.text)
                 \o <<End("Paragraph", 0)>>
                 \o ChildrenEvents(item.children)
                 \o ItemsEvents(Tail(items))

\* the body of `for item in items`
ItemsEvents(items) ==
    IF items = <<>> THEN <<>>
    ELSE LET item == Head(items)
         IN  <<Start("Item", 0), Start("Paragraph", 0)>>
                 \o rich_text_to_events(item.text)
                 \o <<End("Paragraph", 0)>>
                 \o ChildrenEvents(item.children)
                 \o <<End("Item", 0)>>
                 \o ItemsEvents(Tail(items))

\* flat_map(get_pulldown_cmark_events) over a Tag sequence
ChildrenEvents(ts) ==
    IF ts = <<>> THEN <<>>
    ELSE get_pulldown_cmark_events(Head(ts)) \o ChildrenEvents(Tail(ts))

get_pulldown_cmark_events(tag) ==
    CASE tag.type = "Heading" ->
            <<Start("Heading", tag.level)>>
                \o rich_text_to_events(tag.text)
                \o <<End("Heading", tag.level)>>
      [] tag.type = "Paragraph" ->
            <<Start("Paragraph", 0)>>
                \o rich_text_to_events(tag.text)
                \o <<End("Paragraph", 0)>>
      [] tag.type = "OrderedList" ->
            <<Start("List", 1)>> \o ItemsEvents(tag.items) \o <<End("List", 1)>>

(***************************************************************************)
(* markdown/from_cmark.rs.  A parse step returns st = "Ok" with a value    *)
(* and the position of the next unread event, st = "Err" with a ParseError *)
(* or st = "Panic" (assert!, expect, unreachable!, unimplemented!).        *)
(***************************************************************************)
Ok(v, p) == [st |-> "Ok", val |-> v, pos |-> p, err |-> "", arg |-> 0]

Err(e, a) == [st |-> "Err", val |-> <<>>, pos |-> 0, err |-> e, arg |-> a]

Panic(m) == [st |-> "Panic", val |-> <<>>, pos |-> 0, err |-> m, arg |-> 0]

\* the event at position p, as Peekable::peek sees it
HasEvent(evs, p) == p <= Len(evs)

RECURSIVE TextRun(_, _)
\* the position after the Text events that start at p
TextRun(evs, p) ==
    IF HasEvent(evs, p) /\ evs[p].ev = "Text" THEN TextRun(evs, p + 1) ELSE p

parse_text(evs, p) ==
    LET q == TextRun(evs, p)
    IN  Ok([i \in 1..(q - p) |-> RichText(evs[p + i - 1].text)], q)

parse_paragraph(evs, p) ==
    LET text == parse_text(evs, p)
    IN  IF text.val = <<>> THEN Panic("empty paragraph")
        ELSE IF ~HasEvent(evs, text.pos) \/ evs[text.pos] # End("Paragraph", 0)
             THEN Panic("end of paragraph")
        ELSE Ok(text.val, text.pos + 1)

\* takes a heading of any level: not what parse_heading does
parse_heading_any_level(evs, p, original_heading_level) ==
    LET text == parse_text(evs, p)
    IN  IF text.val = <<>> THEN Panic("empty heading")
        ELSE IF ~HasEvent(evs, text.pos)
             THEN Panic("unexpected end of events, expected end of heading")
        ELSE IF ~(evs[text.pos].ev = "End" /\ evs[text.pos].tag = "Heading")
             THEN Panic("start heading should have a matching end heading event")
        ELSE Ok(Heading(original_heading_level, text.val), text.pos + 1)

parse_heading(evs, p, original_heading_level) ==
    IF original_heading_level \notin HeadingLevel
    THEN Err("UnexpectedHeadingLevel", original_heading_level)
    ELSE LET text == parse_text(evs, p)
         IN  IF text.val = <<>> THEN Panic("empty heading")
             ELSE IF ~HasEvent(evs, text.pos)
                  THEN Panic("unexpected end of events, expected end of heading")
             ELSE IF ~(evs[text.pos].ev = "End" /\ evs[text.pos].tag = "Heading")
                  THEN Panic("start heading should have a matching end heading event")
             ELSE Ok(Heading(original_heading_level, text.val), text.pos + 1)

RECURSIVE parse_single_event(_, _, _), ListItems(_, _, _),
          parse_ordered_list_item(_, _), ItemChildren(_, _, _)
\* the event was consumed by the caller; p is the position after it
parse_single_event(evs, p, event) ==
    CASE event.ev = "Start" ->
            CASE event.tag = "Heading" -> parse_heading(evs, p, event.arg)
              [] event.tag = "List" /\ event.arg # 0 ->
                    LET items == ListItems(evs, p, <<>>)
                    IN  IF items.st # "Ok" THEN items
                        ELSE IF ~HasEvent(evs, items.pos) THEN Panic("end of list")
                        ELSE IF evs[items.pos] # End("List", event.arg)
                             THEN Panic("end of list tag")
                        ELSE Ok(OrderedList(items.val), items.pos + 1)
              [] event.tag = "Paragraph" ->
                    LET par == parse_paragraph(evs, p)
                    IN  IF par.st # "Ok" THEN par
                        ELSE Ok(Paragraph(par.val), par.pos)
              [] OTHER -> Err("UnimplementedTag", 0)
      [] event.ev = "End" ->
            Panic("end events should be handled in start event handlers")
      [] event.ev = "Text" ->
            Panic("text should be handled in start event handlers")
      [] OTHER -> Panic("unhandled event")

\* while next_if_eq(Start(Item)) { items.push(parse_ordered_list_item()?) }
ListItems(evs, p, items) ==
    IF HasEvent(evs, p) /\ evs[p] = Start("Item", 0)
    THEN LET item == parse_ordered_list_item(evs, p + 1)
         IN  IF item.st # "Ok" THEN item
             ELSE ListItems(evs, item.pos, Append(items, item.val))
    ELSE Ok(items, p)

\* takes the paragraph form only
parse_ordered_list_item_strict(evs, p) ==
    IF ~HasEvent(evs, p)
    THEN Panic("unexpected end of events, expected list item to have some content")
    ELSE LET paragraph ==
                 IF evs[p] = Start("Paragraph", 0) THEN parse_paragraph(evs, p + 1)
                 ELSE Panic("list items must have paragraph or text immediately inside")
         IN  IF paragraph.st # "Ok" THEN paragraph
             ELSE LET children == ItemChildren(evs, paragraph.pos, <<>>)
                  IN  IF children.st # "Ok" THEN children
                      ELSE Ok(OrderedListItem(paragraph.val, children.val),
                              children.pos)

parse_ordered_list_item(evs, p) ==
    IF ~HasEvent(evs, p)
    THEN Panic("unexpected end of events, expected list item to have some content")
    ELSE LET paragraph ==
                 IF evs[p] = Start("Paragraph", 0) THEN parse_paragraph(evs, p + 1)
                 ELSE IF evs[p].ev = "Text" THEN parse_text(evs, p)
                 ELSE Panic("list items must have paragraph or text immediately inside")
         IN  IF paragraph.st # "Ok" THEN paragraph
             ELSE LET children == ItemChildren(evs, paragraph.pos, <<>>)
                  IN  IF children.st # "Ok" THEN children
                      ELSE Ok(OrderedListItem(paragraph.val, children.val),
                              children.pos)

\* loop { next(); break on End(Item); children.push(parse_single_event(event)?) }
ItemChildren(evs, p, children) ==
    IF ~HasEvent(evs, p)
    THEN Panic("abrupt end of events - the end item event should still appear")
    ELSE IF evs[p] = End("Item", 0) THEN Ok(children, p + 1)
    ELSE LET child == parse_single_event(evs, p + 1, evs[p])
         IN  IF child.st # "Ok" THEN child
             ELSE ItemChildren(evs, child.pos, Append(children, child.val))

RECURSIVE ParseLoop(_, _, _)
\* while let Some(event) = next() { tags.push(parse_single_event(event)?) }
ParseLoop(evs, p, acc) ==
    IF ~HasEvent(evs, p) THEN Ok(acc, p)
    ELSE LET tag == parse_single_event(evs, p + 1, evs[p])
         IN  IF tag.st # "Ok" THEN tag
             ELSE ParseLoop(evs, tag.pos, Append(acc, tag.val))

\* PulldownCMarkEventParser::parse
parse(evs) == ParseLoop(evs, 1, <<>>)

(***************************************************************************)
(* notion_api/mod.rs and the notion crate's models: the remote blocks.     *)
(***************************************************************************)
\* notion::models::text::RichText
NotionText(s) == [kind |-> "Text", content |-> s]

\* notion::models::Block, by kind, with its rich_text payload
Block(k, rt) == [kind |-> k, rich_text |-> rt]

BlockWithChildren(b, c) == [block |-> b, children |-> c]

\* the block kinds parse_block converts, and one it does not
SupportedKinds == {"Heading1", "Heading2", "Heading3", "Paragraph", "NumberedListItem"}

BlockKinds == SupportedKinds \cup {"BulletedListItem"}

RichTextSamples == {<<>>, <<NotionText("a")>>, <<NotionText("b"), NotionText("a")>>}

RECURSIVE NodesOfBlocks(_)
NodesOfBlocks(bs) ==
    IF bs = <<>> THEN 0
    ELSE 1 + NodesOfBlocks(Head(bs).children) + NodesOfBlocks(Tail(bs))

(***************************************************************************)
(* markdown/notion_interop.rs                                              *)
(***************************************************************************)
Some(x) == [some |-> TRUE, val |-> x]

None == [some |-> FALSE]

\* ParserState
Idle == [st |-> "Idle"]

ProcessingList(items) == [st |-> "ProcessingList", items |-> items]

WithBufferedTag(tag) == [st |-> "WithBufferedTag", tag |-> tag]

\* a step of the parser: the state after it and the Option<Tag> it returns,
\* or a panic (todo!, unimplemented!)
Step(state, out) == [panic |-> FALSE, state |-> state, out |-> out]

StepPanic == [panic |-> TRUE]

\* impl From<&notion::models::text::RichText> for RichText
RichTextPanics(rich_text) ==
    \E i \in 1..Len(rich_text) : rich_text[i].kind # "Text"

parse_rich_text(rich_text) ==
    [i \in 1..Len(rich_text) |-> RichText(rich_text[i].content)]

maybe_flush_processed_tag(state) ==
    CASE state.st = "Idle" -> Step(Idle, None)
      [] state.st = "ProcessingList" -> Step(Idle, Some(OrderedList(state.items)))
      [] state.st = "WithBufferedTag" -> Step(Idle, Some(state.tag))

\* emits the new tag and buffers the flushed one
next_tag_swapped(state, tag) ==
    LET flushed == maybe_flush_processed_tag(state)
    IN  IF flushed.out.some
        THEN Step(WithBufferedTag(flushed.out.val), Some(tag))
        ELSE Step(flushed.state, Some(tag))

\* holds every new tag back, also when nothing is pending
next_tag_withheld(state, tag) ==
    LET flushed == maybe_flush_processed_tag(state)
    IN  Step(WithBufferedTag(tag), flushed.out)

\* keeps the buffered tag for one more input
next_tag_keeps_buffered(state, tag) ==
    LET flushed == maybe_flush_processed_tag(state)
    IN  IF state.st = "WithBufferedTag"
        THEN Step(state, None)
        ELSE IF flushed.out.some
             THEN Step(WithBufferedTag(tag), flushed.out)
             ELSE Step(flushed.state, Some(tag))

next_tag(state, tag) ==
    LET flushed == maybe_flush_processed_tag(state)
    IN  IF flushed.out.some
        THEN Step(WithBufferedTag(tag), flushed.out)
        ELSE Step(flushed.state, Some(tag))

\* drops what is pending at the end of the input
flush_nothing(state) == None

flush(state) == maybe_flush_processed_tag(state).out

\* starts the list again on every item
push_list_item_restart(state, next_list_item) ==
    CASE state.st = "Idle" -> Step(ProcessingList(<<next_list_item>>), None)
      [] state.st = "ProcessingList" -> Step(ProcessingList(<<next_list_item>>), None)
      [] state.st = "WithBufferedTag" ->
            Step(ProcessingList(<<next_list_item>>), Some(state.tag))

\* puts the new item before the pending ones
push_list_item_prepend(state, next_list_item) ==
    CASE state.st = "Idle" -> Step(ProcessingList(<<next_list_item>>), None)
      [] state.st = "ProcessingList" ->
            Step(ProcessingList(<<next_list_item>> \o state.items), None)
      [] state.st = "WithBufferedTag" ->
            Step(ProcessingList(<<next_list_item>>), Some(state.tag))

\* loses the buffered tag when a list starts
push_list_item_drops_buffered(state, next_list_item) ==
    CASE state.st = "Idle" -> Step(ProcessingList(<<next_list_item>>), None)
      [] state.st = "ProcessingList" ->
            Step(ProcessingList(Append(state.items, next_list_item)), None)
      [] state.st = "WithBufferedTag" ->
            Step(ProcessingList(<<next_list_item>>), None)

\* the match on self.state of the NumberedListItem arm
push_list_item(state, next_list_item) ==
    CASE state.st = "Idle" -> Step(ProcessingList(<<next_list_item>>), None)
      [] state.st = "ProcessingList" ->
            Step(ProcessingList(Append(state.items, next_list_item)), None)
      [] state.st = "WithBufferedTag" ->
            Step(ProcessingList(<<next_list_item>>), Some(state.tag))

HeadingLevelOf(kind) ==
    CASE kind = "Heading1" -> 1 [] kind = "Heading2" -> 2 [] kind = "Heading3" -> 3

RECURSIVE parse_block(_, _), NextLoop(_, _), Collect(_, _, _)
\* converts the children with the enclosing parser's state
parse_block_shared(state, value) ==
    LET kind == value.block.kind
        rich_text == value.block.rich_text
    IN  CASE kind \in {"Heading1", "Heading2", "Heading3"} ->
                IF RichTextPanics(rich_text) THEN StepPanic
                ELSE next_tag(state, Heading(HeadingLevelOf(kind),
                                             parse_rich_text(rich_text)))
          [] kind = "Paragraph" ->
                IF RichTextPanics(rich_text) THEN StepPanic
                ELSE next_tag(state, Paragraph(parse_rich_text(rich_text)))
          [] kind = "NumberedListItem" ->
                LET children == Collect(Some(state), value.children, <<>>)
                IN  IF RichTextPanics(rich_text) \/ children.panic THEN StepPanic
                    ELSE push_list_item(state,
                            OrderedListItem(parse_rich_text(rich_text), children.val))
          [] OTHER -> StepPanic

parse_block(state, value) ==
    LET kind == value.block.kind
        rich_text == value.block.rich_text
    IN  CASE kind \in {"Heading1", "Heading2", "Heading3"} ->
                IF RichTextPanics(rich_text) THEN StepPanic
                ELSE next_tag(state, Heading(HeadingLevelOf(kind),
                                             parse_rich_text(rich_text)))
          [] kind = "Paragraph" ->
                IF RichTextPanics(rich_text) THEN StepPanic
                ELSE next_tag(state, Paragraph(parse_rich_text(rich_text)))
          [] kind = "NumberedListItem" ->
                LET children == Collect(Some(Idle), value.children, <<>>)
                IN  IF RichTextPanics(rich_text) \/ children.panic THEN StepPanic
                    ELSE push_list_item(state,
                            OrderedListItem(parse_rich_text(rich_text), children.val))
          [] OTHER -> StepPanic

\* one call of MarkdownTagIterator::next: the iterator's parser and blocks
\* after it and the Option<Tag> it returns
Pulled(p, bs, out) == [panic |-> FALSE, parser |-> p, blocks |-> bs, out |-> out]

\* for block in self.blocks.by_ref() { ... return Some(parsed_tag) }, then
\* self.parser.take() and flush()
NextLoop(state, bs) ==
    IF bs = <<>> THEN Pulled(None, bs, flush(state))
    ELSE LET step == parse_block(state, Head(bs))
         IN  IF step.panic THEN StepPanic
             ELSE IF step.out.some THEN Pulled(Some(step.state), Tail(bs), step.out)
             ELSE NextLoop(step.state, Tail(bs))

MarkdownTagIterator_next(p, bs) ==
    IF ~p.some THEN Pulled(p, bs, None) ELSE NextLoop(p.val, bs)

\* feed(blocks).collect(): next until it returns None
Collect(p, bs, acc) ==
    LET pulled == MarkdownTagIterator_next(p, bs)
    IN  IF pulled.panic THEN [panic |-> TRUE]
        ELSE IF pulled.out.some
             THEN Collect(pulled.parser, pulled.blocks, Append(acc, pulled.out.val))
        ELSE [panic |-> FALSE, val |-> acc]

(***************************************************************************)
(* The Notion API as the client sees it.  The page is block 0, the         *)
(* children it has before the operation are 1..initial, and the server     *)
(* gives the k-th block it creates the identifier initial + k.             *)
(***************************************************************************)
PageId == 0

NewId(k) == initial + k

RECURSIVE SortedIds(_)
\* the identifiers of a set, in their order on the page
SortedIds(ids) ==
    IF ids = {} THEN <<>>
    ELSE LET m == CHOOSE x \in ids : \A y \in ids : x <= y
         IN  <<m>> \o SortedIds(ids \ {m})

\* GET /v1/blocks/{id}/children: one page of results and has_more
ListChildrenResults(ids) ==
    LET all == SortedIds(ids)
    IN  IF Len(all) <= PageSize THEN all ELSE SubSeq(all, 1, PageSize)

ListChildrenHasMore(ids) == Cardinality(ids) > PageSize

\* how a DELETE /v1/blocks/{id} can end: the block is deleted, the server
\* answers with an error status and keeps the block, or the request fails
DeleteOutcomes == {"deleted", "http_error", "failed"}

\* how a PATCH /v1/blocks/{id}/children can end
CreateOutcomes == {"created", "AppendFailed", "UnexpectedResponse"}

Call(op, target, children) == [op |-> op, target |-> target, children |-> children]

(***************************************************************************)
(* notion_api/client.rs: delete_block and erase_page                       *)
(***************************************************************************)
NoOutcome == [st |-> "None", err |-> "", block_id |-> 0]

EraseOk == [st |-> "Ok", err |-> "", block_id |-> 0]

EraseErr(e, id) == [st |-> "Err", err |-> e, block_id |-> id]

\* send().await.map(|_| ()): Err only when the request itself fails
delete_block(outcome) == IF outcome = "failed" THEN "Err" ELSE "Ok"

RECURSIVE FirstErr(_, _, _)
\* collect::<Result<Vec<()>, _>>() over the joined results, in index order
FirstErr(ids, results, i) ==
    IF i > Len(results) THEN EraseOk
    ELSE IF delete_block(results[i]) = "Err"
         THEN EraseErr("DeleteBlockFailed", ids[i])
    ELSE FirstErr(ids, results, i + 1)

InFlight == {i \in 1..Len(del) : del[i] = "inflight"}

(***************************************************************************)
(* notion_api/client.rs: BlockWithChildrenToCreate and create_blocks       *)
(***************************************************************************)
\* impl From<&RichText> for notion::models::text::RichText
ToNotionRichText(text) == [i \in 1..Len(text) |-> NotionText(text[i].text)]

\* makes the heading block of the next level
KindOfLevelShifted(l) ==
    CASE l = 1 -> "Heading2" [] l = 2 -> "Heading3" [] l = 3 -> "Heading1"

KindOfLevel(l) == CASE l = 1 -> "Heading1" [] l = 2 -> "Heading2" [] l = 3 -> "Heading3"

childless_block(block) == BlockWithChildren(block, <<>>)

RECURSIVE from_markdown_tag(_), FlatMapFromMarkdownTag(_)
\* leaves the children of the items out
from_markdown_tag_shallow(tag) ==
    CASE tag.type = "Heading" ->
            <<childless_block(Block(KindOfLevel(tag.level), ToNotionRichText(tag.text)))>>
      [] tag.type = "Paragraph" ->
            <<childless_block(Block("Paragraph", ToNotionRichText(tag.text)))>>
      [] tag.type = "OrderedList" ->
            [i \in 1..Len(tag.items) |->
                childless_block(
                    Block("NumberedListItem", ToNotionRichText(tag.items[i].text)))]

from_markdown_tag(tag) ==
    CASE tag.type = "Heading" ->
            <<childless_block(Block(KindOfLevel(tag.level), ToNotionRichText(tag.text)))>>
      [] tag.type = "Paragraph" ->
            <<childless_block(Block("Paragraph", ToNotionRichText(tag.text)))>>
      [] tag.type = "OrderedList" ->
            [i \in 1..Len(tag.items) |->
                BlockWithChildren(
                    Block("NumberedListItem", ToNotionRichText(tag.items[i].text)),
                    FlatMapFromMarkdownTag(tag.items[i].children))]

\* into_iter().flat_map(Self::from_markdown_tag).collect()
FlatMapFromMarkdownTag(ts) ==
    IF ts = <<>> THEN <<>>
    ELSE from_markdown_tag(Head(ts)) \o FlatMapFromMarkdownTag(Tail(ts))

\* blocks_to_create_iter.by_ref().map(|b| b.block).collect(): the blocks
\* collected and what the iterator still holds afterwards
CollectBlocksByRef(iter) ==
    [collected |-> [i \in 1..Len(iter) |-> iter[i].block], rest |-> <<>>]

Min(a, b) == IF a <= b THEN a ELSE b

\* std::iter::zip(a, b)
Zip(a, b) == [i \in 1..Min(Len(a), Len(b)) |-> <<a[i], b[i]>>]

RECURSIVE SelectWithChildren(_)
\* the pairs whose future calls create_blocks; the others are Ok(()) at once
SelectWithChildren(pairs) ==
    IF pairs = <<>> THEN <<>>
    ELSE (IF Head(pairs)[1].children = <<>> THEN <<>> ELSE <<Head(pairs)>>)
             \o SelectWithChildren(Tail(pairs))

\* sends the batch to a block that no response has named
TaskUnderUnknown(parent, bs, by) ==
    [parent |-> parent + 1, blocks |-> bs, by |-> by, st |-> "new",
     ids |-> <<>>, subs |-> <<>>, errors |-> <<>>]

Task(parent, bs, by) ==
    [parent |-> parent, blocks |-> bs, by |-> by, st |-> "new",
     ids |-> <<>>, subs |-> <<>>, errors |-> <<>>]

\* the tasks a create_blocks call spawns once its batch has been created,
\* given the identifiers the response carries
SubTasks(t, ids) ==
    LET rest == CollectBlocksByRef(tasks[t].blocks).rest
        pairs == SelectWithChildren(Zip(rest, ids))
    IN  [i \in 1..Len(pairs) |-> Task(pairs[i][2], pairs[i][1].children, t)]

RECURSIVE CollectResult(_)
\* .into_iter().collect::<Result<_, _>>() on the joined results, each the
\* error list of one sibling call (empty for Ok(())): the Vec of the first
\* Err is returned as it is, the results after it are dropped
CollectResult(results) ==
    IF results = <<>> THEN <<>>
    ELSE IF Head(results) # <<>> THEN Head(results)
    ELSE CollectResult(Tail(results))

\* the result of joining the calls subs[i..]
FirstErrors(subs, i) ==
    CollectResult([j \in 1..(Len(subs) - i + 1) |-> tasks[subs[i + j - 1]].errors])

(***************************************************************************)
(* main.rs: erase_page and create_blocks                                   *)
(***************************************************************************)
RECURSIVE MockTagsOf(_)
\* the body of the children request: one block per heading or paragraph,
\* one per list item
MockTagsOf(ts) ==
    IF ts = <<>> THEN <<>>
    ELSE LET tag == Head(ts)
         IN  (CASE tag.type = "Heading" ->
                      <<Block(KindOfLevel(tag.level), ToNotionRichText(tag.text))>>
                [] tag.type = "Paragraph" ->
                      <<Block("Paragraph", ToNotionRichText(tag.text))>>
                [] tag.type = "OrderedList" ->
                      [i \in 1..Len(tag.items) |->
                          Block("NumberedListItem",
                                ToNotionRichText(tag.items[i].text))])
                 \o MockTagsOf(Tail(ts))

RECURSIVE NestedOf(_)
\* for each created block, in order, the tags to create under it
NestedOf(ts) ==
    IF ts = <<>> THEN <<>>
    ELSE LET tag == Head(ts)
         IN  (IF tag.type = "OrderedList"
              THEN [i \in 1..Len(tag.items) |-> tag.items[i].children]
              ELSE <<(<<>>)>>)
                 \o NestedOf(Tail(ts))

Frame(parent, ts) == [parent |-> parent, tags |-> ts]

RECURSIVE NestedFrames(_, _, _)
\* the recursive create_blocks calls of one level, in the order they are
\* awaited: one for each list item with children
NestedFrames(nested, ids, i) ==
    IF i > Len(nested) THEN <<>>
    ELSE (IF nested[i] = <<>> THEN <<>> ELSE <<Frame(ids[i], nested[i])>>)
             \o NestedFrames(nested, ids, i + 1)

(***************************************************************************)
(* get_all_block_children (notion_api/client.rs, and the copy in           *)
(* notion.rs).  The remote forest is a sequence of nodes; a block is       *)
(* identified by its path from the page, the page by the empty path.       *)
(***************************************************************************)
RemoteNode(kind) == [kind |-> kind, children |-> <<>>]

\* a paragraph and a numbered-list item: both kinds may have children
RemoteKinds == {"Paragraph", "NumberedListItem"}

RECURSIVE ChildrenAt(_, _)
ChildrenAt(forest, path) ==
    IF path = <<>> THEN forest
    ELSE ChildrenAt(forest[Head(path)].children, Tail(path))

RECURSIVE AddChildAt(_, _, _)
AddChildAt(forest, path, node) ==
    IF path = <<>> THEN Append(forest, node)
    ELSE [forest EXCEPT ![Head(path)].children = AddChildAt(@, Tail(path), node)]

RECURSIVE PathsOf(_)
PathsOf(forest) ==
    {<<>>} \cup UNION {{<<i>> \o q : q \in PathsOf(forest[i].children)} :
                          i \in 1..Len(forest)}

RECURSIVE CountRemote(_)
CountRemote(forest) ==
    IF forest = <<>> THEN 0
    ELSE 1 + CountRemote(Head(forest).children) + CountRemote(Tail(forest))

\* a block as a list-children response carries it
ListedBlock(path, node) ==
    [id |-> path, kind |-> node.kind, has_children |-> node.children # <<>>]

\* the response to get_block_children(block_id): results and has_more
ListResponseResults(path) ==
    LET all == ChildrenAt(remote, path)
        n == Min(Len(all), PageSize)
    IN  [i \in 1..n |-> ListedBlock(Append(path, i), all[i])]

ListResponseHasMore(path) == Len(ChildrenAt(remote, path)) > PageSize

\* GetCommon::common: Some only for a numbered-list item
common(block) ==
    IF block.kind = "NumberedListItem"
    THEN Some([has_children |-> block.has_children])
    ELSE None

\* child_block.common().map_or(false, |common| common.has_children)
has_children(child_block) ==
    IF common(child_block).some THEN common(child_block).val.has_children ELSE FALSE

FetchNone == [st |-> "None", val |-> <<>>, err |-> ""]

FetchOk(v) == [st |-> "Ok", val |-> v, err |-> ""]

FetchErr(e) == [st |-> "Err", val |-> <<>>, err |-> e]

\* one call of get_all_block_children whose request has been sent
FetchTask(path, by) ==
    [block |-> path, by |-> by, st |-> "listing", listed |-> <<>>, subs |-> <<>>,
     value |-> FetchNone, has_more |-> FALSE, finished |-> 0]

\* .map(|children| BlockWithChildren { block: child_block, children })
MapChildren(child_block, result) ==
    IF result.st = "Ok" THEN FetchOk(BlockWithChildren(child_block, result.val))
    ELSE result

\* the result of the future of the i-th listed block
JoinedAt(t, i) ==
    IF fetches[t].subs[i] = 0
    THEN FetchOk(BlockWithChildren(fetches[t].listed[i], <<>>))
    ELSE MapChildren(fetches[t].listed[i], fetches[fetches[t].subs[i]].value)

\* the results in reverse: not what join_all returns
JoinedReversed(t) ==
    [i \in 1..Len(fetches[t].listed) |-> JoinedAt(t, Len(fetches[t].listed) + 1 - i)]

\* the Vec join_all returns: one result per listed block, in their order
JoinedResults(t) == [i \in 1..Len(fetches[t].listed) |-> JoinedAt(t, i)]

RECURSIVE FirstFetchErr(_)
FirstFetchErr(results) ==
    IF results = <<>> THEN FetchNone
    ELSE IF Head(results).st = "Err" THEN Head(results)
    ELSE FirstFetchErr(Tail(results))

RECURSIVE SelectOk(_)
SelectOk(results) ==
    IF results = <<>> THEN <<>>
    ELSE (IF Head(results).st = "Ok" THEN <<Head(results).val>> ELSE <<>>)
             \o SelectOk(Tail(results))

\* the failed results left out: not what collect does
CollectLenient(results) == FetchOk(SelectOk(results))

\* .into_iter().collect() into Result<Vec<BlockWithChildren>, notion::Error>
CollectFetched(results) ==
    IF FirstFetchErr(results).st = "Err" THEN FirstFetchErr(results)
    ELSE FetchOk(SelectOk(results))

RECURSIVE SubCalls(_, _, _)
\* for each listed block the index of the task of its recursive call, 0 if
\* it has none, when the calls are added after the first n tasks
SubCalls(results, i, n) ==
    IF i > Len(results) THEN <<>>
    ELSE IF has_children(results[i])
         THEN <<n + 1>> \o SubCalls(results, i + 1, n + 1)
         ELSE <<0>> \o SubCalls(results, i + 1, n)

RECURSIVE NewFetchTasks(_, _, _)
\* the call for a block with children issued a second time: not what the
\* join does
NewFetchTasksRetried(results, i, t) ==
    IF i > Len(results) THEN <<>>
    ELSE (IF has_children(results[i])
          THEN <<FetchTask(results[i].id, t), FetchTask(results[i].id, t)>> ELSE <<>>)
             \o NewFetchTasks(results, i + 1, t)

NewFetchTasks(results, i, t) ==
    IF i > Len(results) THEN <<>>
    ELSE (IF has_children(results[i]) THEN <<FetchTask(results[i].id, t)>> ELSE <<>>)
             \o NewFetchTasks(results, i + 1, t)

FinishedFetches == Cardinality({t \in 1..Len(fetches) : fetches[t].st = "done"})

(***************************************************************************)
(* The documents to publish: headings, paragraphs and non-empty lists of   *)
(* at most MaxPushNodes nodes.                                             *)
(***************************************************************************)
PushLeafTags == {Paragraph(<<RichText("p")>>), Heading(1, <<RichText("h")>>)}

PushItemTexts == {<<RichText("a")>>, <<RichText("b")>>}

RECURSIVE PushForests(_), PushItemSeqs(_)
PushItemSeqs(n) ==
    IF n = 0 THEN {<<>>}
    ELSE UNION {{<<OrderedListItem(t, c)>> \o r :
                    t \in PushItemTexts, c \in PushForests(j - 1), r \in PushItemSeqs(n - j)}
                    : j \in 1..n}

PushForests(n) ==
    IF n = 0 THEN {<<>>}
    ELSE {<<t>> \o r : t \in PushLeafTags, r \in PushForests(n - 1)}
            \cup UNION {{<<OrderedList(is)>> \o r :
                            is \in PushItemSeqs(j), r \in PushForests(n - 1 - j)}
                            : j \in 1..(n - 1)}

PushDocuments == UNION {PushForests(n) : n \in 0..MaxPushNodes}

(***************************************************************************)
(* The values the variables of one part keep while another part runs.      *)
(***************************************************************************)
NoResult == [st |-> "None", val |-> <<>>, pos |-> 0, err |-> "", arg |-> 0]

RoundTripOff ==
    /\ tags = <<>>
    /\ events = <<>>
    /\ parsed = NoResult
    /\ rtpc = "off"

TransducerOff ==
    /\ input = <<>>
    /\ blocks = <<>>
    /\ parser = None
    /\ output = <<>>
    /\ outAt = <<>>
    /\ last = None
    /\ tpc = "off"

SyncOff ==
    /\ existing = {}
    /\ initial = 0
    /\ created = <<>>
    /\ listed = <<>>
    /\ hasMore = FALSE
    /\ del = <<>>
    /\ eraseResult = NoOutcome
    /\ doc = <<>>
    /\ tasks = <<>>
    /\ stack = <<>>
    /\ calls = <<>>
    /\ spc = "off"

NoJoinResult == [st |-> "None", errors |-> <<>>]

JoinOff ==
    /\ branches = <<>>
    /\ joinResult = NoJoinResult
    /\ jpc = "off"

FetchOff ==
    /\ remote = <<>>
    /\ fetches = <<>>
    /\ fetchCalls = <<>>
    /\ fpc = "off"

ParseOff ==
    /\ stream = <<>>
    /\ parseResult = NoResult
    /\ reserialized = <<>>
    /\ ppc = "off"

CliOff ==
    /\ page_arg = [kind |-> "none"]
    /\ page_id = [st |-> "None"]
    /\ cpc = "off"

(***************************************************************************)
(* Serialize a document, then parse the events back.                       *)
(***************************************************************************)
InitRoundTrip ==
    /\ tags = <<>>
    /\ events = <<>>
    /\ parsed = NoResult
    /\ rtpc = "build"
    /\ TransducerOff
    /\ SyncOff
    /\ JoinOff
    /\ FetchOff
    /\ ParseOff
    /\ CliOff

\* the document gets one more heading or paragraph
AddLeaf ==
    /\ rtpc = "build"
    /\ NodesOfTags(tags) < MaxNodes
    /\ \E t \in TextSamples :
          \/ \E l \in HeadingLevel : tags' = Append(tags, Heading(l, t))
          \/ tags' = Append(tags, Paragraph(t))
    /\ UNCHANGED <<events, parsed, rtpc>>
    /\ UNCHANGED notRtVars

\* the document gets one more list, still without items
AddEmptyList ==
    /\ rtpc = "build"
    /\ NodesOfTags(tags) < MaxNodes
    /\ tags' = Append(tags, OrderedList(<<>>))
    /\ UNCHANGED <<events, parsed, rtpc>>
    /\ UNCHANGED notRtVars

\* the k tags after a list become the children of a new last item of that list
AppendItem ==
    /\ rtpc = "build"
    /\ NodesOfTags(tags) < MaxNodes
    /\ \E t \in TextSamples, k \in 0..(Len(tags) - 1) :
          LET at == Len(tags) - k
          IN  /\ tags[at].type = "OrderedList"
              /\ tags' = Append(SubSeq(tags, 1, at - 1),
                                OrderedList(Append(tags[at].items,
                                    OrderedListItem(t, SubSeq(tags, at + 1, Len(tags))))))
    /\ UNCHANGED <<events, parsed, rtpc>>
    /\ UNCHANGED notRtVars

\* document.iter().flat_map(get_pulldown_cmark_events)
Serialize ==
    /\ rtpc = "build"
    /\ events' = ChildrenEvents(tags)
    /\ rtpc' = "serialized"
    /\ UNCHANGED <<tags, parsed>>
    /\ UNCHANGED notRtVars

\* PulldownCMarkEventParser::new(events).parse()
Parse ==
    /\ rtpc = "serialized"
    /\ parsed' = parse(events)
    /\ rtpc' = "parsed"
    /\ UNCHANGED <<tags, events>>
    /\ UNCHANGED notRtVars

NextRoundTrip == AddLeaf \/ AddEmptyList \/ AppendItem \/ Serialize \/ Parse

SpecRoundTrip == InitRoundTrip /\ [][NextRoundTrip]_vars

(***************************************************************************)
(* Feed a remote forest to the transducer and pull its tags.               *)
(***************************************************************************)
InitTransducer ==
    /\ input = <<>>
    /\ blocks = <<>>
    /\ parser = None
    /\ output = <<>>
    /\ outAt = <<>>
    /\ last = None
    /\ tpc = "build"
    /\ RoundTripOff
    /\ SyncOff
    /\ JoinOff
    /\ FetchOff
    /\ ParseOff
    /\ CliOff

\* the remote forest gets one more top-level block
AddBlock ==
    /\ tpc = "build"
    /\ NodesOfBlocks(input) < MaxBlocks
    /\ \E k \in BlockKinds, rt \in RichTextSamples :
          input' = Append(input, BlockWithChildren(Block(k, rt), <<>>))
    /\ UNCHANGED <<blocks, parser, output, outAt, last, tpc>>
    /\ UNCHANGED notTrVars

\* the k blocks after a numbered-list item become its children: the fetch
\* (get_all_block_children) reads has_children for this kind of block only
AdoptChildren ==
    /\ tpc = "build"
    /\ \E k \in 1..(Len(input) - 1) :
          LET at == Len(input) - k
          IN  /\ input[at].block.kind = "NumberedListItem"
              /\ input[at].children = <<>>
              /\ input' = Append(SubSeq(input, 1, at - 1),
                                 BlockWithChildren(input[at].block,
                                                   SubSeq(input, at + 1, Len(input))))
    /\ UNCHANGED <<blocks, parser, output, outAt, last, tpc>>
    /\ UNCHANGED notTrVars

\* NotionToMarkdownParser::default().feed(page_blocks.iter())
Feed ==
    /\ tpc = "build"
    /\ blocks' = input
    /\ parser' = Some(Idle)
    /\ tpc' = "iterating"
    /\ UNCHANGED <<input, output, outAt, last>>
    /\ UNCHANGED notTrVars

\* one call of MarkdownTagIterator::next, also after it has returned None
Pull ==
    /\ tpc \in {"iterating", "ended"}
    /\ LET pulled == MarkdownTagIterator_next(parser, blocks)
       IN  IF pulled.panic
           THEN /\ tpc' = "panicked"
                /\ UNCHANGED <<blocks, parser, output, outAt, last>>
           ELSE /\ parser' = pulled.parser
                /\ blocks' = pulled.blocks
                /\ last' = pulled.out
                /\ output' = IF pulled.out.some
                             THEN Append(output, pulled.out.val) ELSE output
                /\ outAt' = IF pulled.out.some
                            THEN Append(outAt, Len(input) - Len(pulled.blocks))
                            ELSE outAt
                /\ tpc' = IF pulled.out.some THEN tpc ELSE "ended"
    /\ UNCHANGED input
    /\ UNCHANGED notTrVars

NextTransducer == AddBlock \/ AdoptChildren \/ Feed \/ Pull

SpecTransducer == InitTransducer /\ [][NextTransducer]_vars

(***************************************************************************)
(* Properties                                                              *)
(***************************************************************************)
RECURSIVE WellFormedTags(_), WellFormedItems(_)
\* every heading, paragraph and item has a text run, every list has an item
WellFormedTags(ts) ==
    \A i \in 1..Len(ts) :
        IF ts[i].type = "OrderedList"
        THEN ts[i].items # <<>> /\ WellFormedItems(ts[i].items)
        ELSE ts[i].text # <<>>

WellFormedItems(is) ==
    \A i \in 1..Len(is) : is[i].text # <<>> /\ WellFormedTags(is[i].children)

\* C1: parsing the events of a well-formed Tag sequence returns Ok with the
\* same Tag sequence: order, text runs and list nesting are preserved.
C1_RoundTrip ==
    (rtpc = "parsed" /\ WellFormedTags(tags))
        => (parsed.st = "Ok" /\ parsed.val = tags)

\* a list item holding a nested, non-empty list has been parsed back
C1_Witness ==
    /\ rtpc = "parsed"
    /\ WellFormedTags(tags)
    /\ parsed.st = "Ok"
    /\ \E i \in 1..Len(tags) :
          /\ tags[i].type = "OrderedList"
          /\ \E j \in 1..Len(tags[i].items) :
                \E k \in 1..Len(tags[i].items[j].children) :
                    tags[i].items[j].children[k].type = "OrderedList"

(***************************************************************************)
(* erase_page of notion_api/client.rs on a container with children.        *)
(***************************************************************************)
InitClientErase ==
    /\ initial \in 0..MaxChildren
    /\ existing = 1..initial
    /\ created = <<>>
    /\ listed = <<>>
    /\ hasMore = FALSE
    /\ del = <<>>
    /\ eraseResult = NoOutcome
    /\ doc = <<>>
    /\ tasks = <<>>
    /\ stack = <<>>
    /\ calls = <<>>
    /\ spc = "start"
    /\ RoundTripOff
    /\ TransducerOff
    /\ JoinOff
    /\ FetchOff
    /\ ParseOff
    /\ CliOff

\* notion_api.get_block_children(block_id) is sent
EraseListCall ==
    /\ spc = "start"
    /\ calls' = Append(calls, Call("list", PageId, <<>>))
    /\ spc' = "listing"
    /\ UNCHANGED <<serverVars, eraseVars, createVars>>
    /\ UNCHANGED notSyncVars

\* ... and answers: .results is kept, has_more is not read
EraseListResponse ==
    /\ spc = "listing"
    /\ \/ /\ listed' = ListChildrenResults(existing)
          /\ hasMore' = ListChildrenHasMore(existing)
          /\ del' = [i \in 1..Len(ListChildrenResults(existing)) |-> "pending"]
          /\ spc' = "listed"
          /\ UNCHANGED eraseResult
       \/ /\ eraseResult' = EraseErr("FetchingPageContent", PageId)
          /\ spc' = "done"
          /\ UNCHANGED <<listed, hasMore, del>>
    /\ UNCHANGED <<serverVars, createVars, calls>>
    /\ UNCHANGED notSyncVars

RECURSIVE DeleteCalls(_)
DeleteCalls(ids) ==
    IF ids = <<>> THEN <<>>
    ELSE <<Call("delete", Head(ids), <<>>)>> \o DeleteCalls(Tail(ids))

\* the first poll of join_all polls every delete future: each sends its
\* request and waits for the response
EraseStartDeletes ==
    /\ spc = "listed"
    /\ del' = [i \in 1..Len(listed) |-> "inflight"]
    /\ calls' = calls \o DeleteCalls(listed)
    /\ spc' = "joining"
    /\ UNCHANGED <<serverVars, listed, hasMore, eraseResult, createVars>>
    /\ UNCHANGED notSyncVars

\* the response to one of the requests in flight arrives
EraseDeleteResponse ==
    /\ spc = "joining"
    /\ \E i \in InFlight, outcome \in DeleteOutcomes :
          /\ del' = [del EXCEPT ![i] = outcome]
          /\ existing' = IF outcome = "deleted" THEN existing \ {listed[i]} ELSE existing
    /\ UNCHANGED <<initial, created, listed, hasMore, eraseResult, createVars, calls, spc>>
    /\ UNCHANGED notSyncVars

\* join_all is ready when every future is: the results are collected
EraseJoin ==
    /\ spc = "joining"
    /\ InFlight = {}
    /\ eraseResult' = FirstErr(listed, del, 1)
    /\ spc' = "done"
    /\ UNCHANGED <<serverVars, listed, hasMore, del, createVars, calls>>
    /\ UNCHANGED notSyncVars

NextClientErase ==
    EraseListCall \/ EraseListResponse \/ EraseStartDeletes \/ EraseDeleteResponse
        \/ EraseJoin

SpecClientErase == InitClientErase /\ [][NextClientErase]_vars

(***************************************************************************)
(* NotionClient::create_blocks of notion_api/client.rs on the blocks that  *)
(* from_markdown_tag makes of a document.  Every call of create_blocks is  *)
(* a task; the calls one task makes for the children run concurrently.     *)
(***************************************************************************)
InitClientCreate ==
    /\ doc \in PushDocuments
    /\ initial = 0
    /\ existing = {}
    /\ created = <<>>
    /\ listed = <<>>
    /\ hasMore = FALSE
    /\ del = <<>>
    /\ eraseResult = NoOutcome
    /\ tasks = <<Task(PageId, FlatMapFromMarkdownTag(doc), 0)>>
    /\ stack = <<>>
    /\ calls = <<>>
    /\ spc = "creating"
    /\ RoundTripOff
    /\ TransducerOff
    /\ JoinOff
    /\ FetchOff
    /\ ParseOff
    /\ CliOff

\* the task collects the blocks of its level and sends them in one request
ClientCreateCall ==
    /\ spc = "creating"
    /\ \E t \in 1..Len(tasks) :
          /\ tasks[t].st = "new"
          /\ calls' = Append(calls,
                 Call("create", tasks[t].parent,
                      CollectBlocksByRef(tasks[t].blocks).collected))
          /\ tasks' = [tasks EXCEPT ![t].st = "inflight"]
    /\ UNCHANGED <<serverVars, eraseVars, doc, stack, spc>>
    /\ UNCHANGED notSyncVars

\* the request is answered: on success the zip of what the iterator still
\* holds with the created blocks gives the concurrent calls for the children
ClientCreateResponse ==
    /\ spc = "creating"
    /\ \E t \in 1..Len(tasks), outcome \in CreateOutcomes :
          /\ tasks[t].st = "inflight"
          /\ IF outcome = "created"
             THEN LET sent == CollectBlocksByRef(tasks[t].blocks).collected
                      ids == [i \in 1..Len(sent) |-> NewId(Len(created) + i)]
                      new == SubTasks(t, ids)
                  IN  /\ created' = created \o
                             [i \in 1..Len(sent) |->
                                 [parent |-> tasks[t].parent, block |-> sent[i]]]
                      /\ tasks' = [tasks EXCEPT ![t].st = "joining",
                                                ![t].ids = ids,
                                                ![t].subs = [i \in 1..Len(new) |->
                                                                Len(tasks) + i]]
                                      \o new
             ELSE /\ tasks' = [tasks EXCEPT ![t].st = "done",
                                            ![t].errors = <<outcome>>]
                  /\ UNCHANGED created
    /\ spc' = IF tasks'[1].st = "done" THEN "done" ELSE spc
    /\ UNCHANGED <<existing, initial, eraseVars, doc, stack, calls>>
    /\ UNCHANGED notSyncVars

\* join_all is ready when every call for the children has returned
ClientCreateJoin ==
    /\ spc = "creating"
    /\ \E t \in 1..Len(tasks) :
          /\ tasks[t].st = "joining"
          /\ \A i \in 1..Len(tasks[t].subs) : tasks[tasks[t].subs[i]].st = "done"
          /\ tasks' = [tasks EXCEPT ![t].st = "done",
                                    ![t].errors = FirstErrors(tasks[t].subs, 1)]
    /\ spc' = IF tasks'[1].st = "done" THEN "done" ELSE spc
    /\ UNCHANGED <<serverVars, eraseVars, doc, stack, calls>>
    /\ UNCHANGED notSyncVars

NextClientCreate == ClientCreateCall \/ ClientCreateResponse \/ ClientCreateJoin

SpecClientCreate == InitClientCreate /\ [][NextClientCreate]_vars

(***************************************************************************)
(* convert_markdown_to_page of main.rs: erase_page, then create_blocks.    *)
(* Each request is awaited before the next statement runs; stack holds     *)
(* the calls of create_blocks still to make, the innermost first.          *)
(***************************************************************************)
InitPush ==
    /\ doc \in PushDocuments
    /\ initial \in 0..MaxChildren
    /\ existing = 1..initial
    /\ created = <<>>
    /\ listed = <<>>
    /\ hasMore = FALSE
    /\ del = <<>>
    /\ eraseResult = NoOutcome
    /\ tasks = <<>>
    /\ stack = <<>>
    /\ calls = <<>>
    /\ spc = "start"
    /\ RoundTripOff
    /\ TransducerOff
    /\ JoinOff
    /\ FetchOff
    /\ ParseOff
    /\ CliOff

MainListCall ==
    /\ spc = "start"
    /\ calls' = Append(calls, Call("list", PageId, <<>>))
    /\ spc' = "listing"
    /\ UNCHANGED <<serverVars, eraseVars, createVars>>
    /\ UNCHANGED notSyncVars

\* .expect("page blocks to fetch"), then results()
MainListResponse ==
    /\ spc = "listing"
    /\ \/ /\ listed' = ListChildrenResults(existing)
          /\ hasMore' = ListChildrenHasMore(existing)
          /\ del' = [i \in 1..Len(ListChildrenResults(existing)) |-> "pending"]
          /\ spc' = "erasing"
       \/ /\ spc' = "panicked"
          /\ UNCHANGED <<listed, hasMore, del>>
    /\ UNCHANGED <<serverVars, eraseResult, createVars, calls>>
    /\ UNCHANGED notSyncVars

\* for future in futures { future.await; }: the next future is polled once
\* the one before it has finished
MainDeleteCall ==
    /\ spc = "erasing"
    /\ InFlight = {}
    /\ \E i \in 1..Len(del) :
          /\ del[i] = "pending"
          /\ \A j \in 1..(i - 1) : del[j] # "pending"
          /\ del' = [del EXCEPT ![i] = "inflight"]
          /\ calls' = Append(calls, Call("delete", listed[i], <<>>))
    /\ UNCHANGED <<serverVars, listed, hasMore, eraseResult, createVars, spc>>
    /\ UNCHANGED notSyncVars

\* .expect("block to be correctly deleted") panics when the request fails
MainDeleteResponse ==
    /\ spc = "erasing"
    /\ \E i \in InFlight, outcome \in DeleteOutcomes :
          /\ del' = [del EXCEPT ![i] = outcome]
          /\ existing' = IF outcome = "deleted" THEN existing \ {listed[i]} ELSE existing
          /\ spc' = IF delete_block(outcome) = "Err" THEN "panicked" ELSE spc
    /\ UNCHANGED <<initial, created, listed, hasMore, eraseResult, createVars, calls>>
    /\ UNCHANGED notSyncVars

\* erase_page returns and create_blocks is called on the page
MainEraseReturn ==
    /\ spc = "erasing"
    /\ \A i \in 1..Len(del) : del[i] \in DeleteOutcomes
    /\ stack' = <<Frame(PageId, doc)>>
    /\ spc' = "creating"
    /\ UNCHANGED <<serverVars, eraseVars, doc, tasks, calls>>
    /\ UNCHANGED notSyncVars

MainCreateCall ==
    /\ spc = "creating"
    /\ calls' = Append(calls,
           Call("create", Head(stack).parent, MockTagsOf(Head(stack).tags)))
    /\ spc' = "appending"
    /\ UNCHANGED <<serverVars, eraseVars, createVars>>
    /\ UNCHANGED notSyncVars

\* the response is awaited and deserialized (both with expect); then the
\* nested calls are made one after the other
MainCreateResponse ==
    /\ spc = "appending"
    /\ \E outcome \in CreateOutcomes :
          IF outcome = "created"
          THEN LET sent == MockTagsOf(Head(stack).tags)
                   ids == [i \in 1..Len(sent) |-> NewId(Len(created) + i)]
               IN  /\ created' = created \o
                          [i \in 1..Len(sent) |->
                              [parent |-> Head(stack).parent, block |-> sent[i]]]
                   /\ stack' = NestedFrames(NestedOf(Head(stack).tags), ids, 1)
                                   \o Tail(stack)
                   /\ spc' = IF stack' = <<>> THEN "done" ELSE "creating"
          ELSE /\ spc' = "panicked"
               /\ UNCHANGED <<created, stack>>
    /\ UNCHANGED <<existing, initial, eraseVars, doc, tasks, calls>>
    /\ UNCHANGED notSyncVars

NextPush ==
    MainListCall \/ MainListResponse \/ MainDeleteCall \/ MainDeleteResponse
        \/ MainEraseReturn \/ MainCreateCall \/ MainCreateResponse

SpecPush == InitPush /\ [][NextPush]_vars

(***************************************************************************)
(* The join at the end of NotionClient::create_blocks: the sibling calls   *)
(* return in index order into the Vec of join_all, then the collect.       *)
(***************************************************************************)
\* what one sibling call returns: Ok(()) or Err(vec![error]) of its request
BranchResults(i) ==
    {<<>>} \cup {<<[error |-> e, branch |-> i]>> : e \in CreateOutcomes \ {"created"}}

InitJoin ==
    /\ branches = <<>>
    /\ joinResult = NoJoinResult
    /\ jpc = "joining"
    /\ RoundTripOff
    /\ TransducerOff
    /\ SyncOff
    /\ FetchOff
    /\ ParseOff
    /\ CliOff

\* the future of one more pair is part of the join and has its result
BranchReturns ==
    /\ jpc = "joining"
    /\ Len(branches) < MaxSiblings
    /\ \E r \in BranchResults(Len(branches) + 1) : branches' = Append(branches, r)
    /\ UNCHANGED <<joinResult, jpc>>
    /\ UNCHANGED notJoinVars

\* join_all(..).await.into_iter().collect::<Result<_, _>>()
JoinCollect ==
    /\ jpc = "joining"
    /\ joinResult' = IF CollectResult(branches) = <<>>
                     THEN [st |-> "Ok", errors |-> <<>>]
                     ELSE [st |-> "Err", errors |-> CollectResult(branches)]
    /\ jpc' = "done"
    /\ UNCHANGED branches
    /\ UNCHANGED notJoinVars

NextJoin == BranchReturns \/ JoinCollect

SpecJoin == InitJoin /\ [][NextJoin]_vars

(***************************************************************************)
(* get_all_block_children on a remote forest.  The recursive calls of one  *)
(* level are joined: their requests are all sent when the level has been   *)
(* listed, and the responses arrive in any order.                          *)
(***************************************************************************)
InitFetch ==
    /\ remote = <<>>
    /\ fetches = <<>>
    /\ fetchCalls = <<>>
    /\ fpc = "build"
    /\ RoundTripOff
    /\ TransducerOff
    /\ SyncOff
    /\ JoinOff
    /\ ParseOff
    /\ CliOff

\* the page gets one more block, under the page or under any block
AddRemoteBlock ==
    /\ fpc = "build"
    /\ CountRemote(remote) < MaxRemote
    /\ \E path \in PathsOf(remote), kind \in RemoteKinds :
          remote' = AddChildAt(remote, path, RemoteNode(kind))
    /\ UNCHANGED <<fetches, fetchCalls, fpc>>
    /\ UNCHANGED notFetchVars

\* get_all_block_children(notion_api, page): the first request is sent
FetchStart ==
    /\ fpc = "build"
    /\ fetches' = <<FetchTask(<<>>, 0)>>
    /\ fetchCalls' = <<(<<>>)>>
    /\ fpc' = "fetching"
    /\ UNCHANGED remote
    /\ UNCHANGED notFetchVars

\* the response of one request arrives: an error is returned with ?, has_more
\* runs into todo!(), else the calls for the children are made and joined
FetchListResponse ==
    /\ fpc = "fetching"
    /\ \E t \in 1..Len(fetches) :
          /\ fetches[t].st = "listing"
          /\ \/ /\ fetches' = [fetches EXCEPT ![t].st = "done",
                                              ![t].value = FetchErr("notion::Error"),
                                              ![t].finished = FinishedFetches + 1]
                /\ fpc' = IF t = 1 THEN "done" ELSE fpc
                /\ UNCHANGED fetchCalls
             \/ /\ ListResponseHasMore(fetches[t].block)
                /\ fetches' = [fetches EXCEPT ![t].st = "panicked",
                                              ![t].has_more = TRUE]
                /\ fpc' = "panicked"
                /\ UNCHANGED fetchCalls
             \/ /\ ~ListResponseHasMore(fetches[t].block)
                /\ LET results == ListResponseResults(fetches[t].block)
                       new == NewFetchTasks(results, 1, t)
                   IN  /\ fetches' = [fetches EXCEPT
                                         ![t].st = "joining",
                                         ![t].listed = results,
                                         ![t].subs = SubCalls(results, 1, Len(fetches))]
                                         \o new
                       /\ fetchCalls' = fetchCalls \o [i \in 1..Len(new) |-> new[i].block]
                /\ UNCHANGED fpc
    /\ UNCHANGED remote
    /\ UNCHANGED notFetchVars

\* ready as soon as one call for the children has returned an error: not
\* what join_all does
JoinReadyOnFirstErr(t) ==
    \/ \A i \in 1..Len(fetches[t].subs) :
          fetches[t].subs[i] # 0 => fetches[fetches[t].subs[i]].st = "done"
    \/ \E i \in 1..Len(fetches[t].subs) :
          /\ fetches[t].subs[i] # 0
          /\ fetches[fetches[t].subs[i]].st = "done"
          /\ fetches[fetches[t].subs[i]].value.st = "Err"

\* join_all(..).await is ready when every future it holds is: every call
\* for the children has returned
JoinReady(t) ==
    \A i \in 1..Len(fetches[t].subs) :
        fetches[t].subs[i] # 0 => fetches[fetches[t].subs[i]].st = "done"

\* the join of one call returns and its results are collected
FetchJoin ==
    /\ fpc = "fetching"
    /\ \E t \in 1..Len(fetches) :
          /\ fetches[t].st = "joining"
          /\ JoinReady(t)
          /\ fetches' = [fetches EXCEPT ![t].st = "done",
                                        ![t].value = CollectFetched(JoinedResults(t)),
                                        ![t].finished = FinishedFetches + 1]
          /\ fpc' = IF t = 1 THEN "done" ELSE fpc
    /\ UNCHANGED <<remote, fetchCalls>>
    /\ UNCHANGED notFetchVars

NextFetch == AddRemoteBlock \/ FetchStart \/ FetchListResponse \/ FetchJoin

SpecFetch == InitFetch /\ [][NextFetch]_vars

\* the executor polls every future that is ready: a request that was sent is
\* answered, with a response or an error, and a join whose calls have all
\* returned is collected
FairFetch ==
    /\ WF_vars(FetchStart)
    /\ WF_vars(FetchListResponse)
    /\ WF_vars(FetchJoin)

SpecFetchFair == SpecFetch /\ FairFetch

(***************************************************************************)
(* The transducer block by block: each turn of the loop of                 *)
(* MarkdownTagIterator::next consumes one block and calls parse_block, and *)
(* the pull returns at the first turn that gives a tag; when the blocks    *)
(* are exhausted the parser is taken and flushed.  output holds the tags   *)
(* returned by the pulls so far, outAt the number of blocks consumed when  *)
(* each was returned.                                                      *)
(***************************************************************************)
StepKinds == {"Heading1", "Paragraph", "NumberedListItem", "BulletedListItem"}

StepTexts == {<<NotionText("a")>>, <<NotionText("b")>>}

\* the remote forest gets one more top-level block
AddStepBlock ==
    /\ tpc = "build"
    /\ NodesOfBlocks(input) < MaxStepBlocks
    /\ \E k \in StepKinds, rt \in StepTexts :
          input' = Append(input, BlockWithChildren(Block(k, rt), <<>>))
    /\ UNCHANGED <<blocks, parser, output, outAt, last, tpc>>
    /\ UNCHANGED notTrVars

\* one turn of `for block in self.blocks.by_ref()`: parser.parse_block(block)
ParseBlockStep ==
    /\ tpc = "iterating"
    /\ parser.some
    /\ blocks # <<>>
    /\ LET step == parse_block(parser.val, Head(blocks))
       IN  IF step.panic
           THEN /\ tpc' = "panicked"
                /\ UNCHANGED <<blocks, parser, output, outAt, last>>
           ELSE /\ parser' = Some(step.state)
                /\ blocks' = Tail(blocks)
                /\ last' = step.out
                /\ output' = IF step.out.some
                             THEN Append(output, step.out.val) ELSE output
                /\ outAt' = IF step.out.some
                            THEN Append(outAt, Len(input) - Len(blocks) + 1)
                            ELSE outAt
                /\ UNCHANGED tpc
    /\ UNCHANGED input
    /\ UNCHANGED notTrVars

\* the blocks are exhausted: self.parser.take() and parser.flush(); the pull
\* that returns None ends the iteration
FlushStep ==
    /\ tpc = "iterating"
    /\ parser.some
    /\ blocks = <<>>
    /\ parser' = None
    /\ last' = flush(parser.val)
    /\ output' = IF flush(parser.val).some
                 THEN Append(output, flush(parser.val).val) ELSE output
    /\ outAt' = IF flush(parser.val).some THEN Append(outAt, Len(input)) ELSE outAt
    /\ tpc' = IF flush(parser.val).some THEN tpc ELSE "ended"
    /\ UNCHANGED <<input, blocks>>
    /\ UNCHANGED notTrVars

\* a pull after the parser was taken: self.parser.as_mut()? returns None
PullTaken ==
    /\ tpc = "iterating"
    /\ ~parser.some
    /\ last' = None
    /\ tpc' = "ended"
    /\ UNCHANGED <<input, blocks, parser, output, outAt>>
    /\ UNCHANGED notTrVars

NextParseBlock ==
    AddStepBlock \/ AdoptChildren \/ Feed \/ ParseBlockStep \/ FlushStep \/ PullTaken

SpecParseBlock == InitTransducer /\ [][NextParseBlock]_vars

(***************************************************************************)
(* Publish, then fetch: the blocks from_markdown_tag makes of a document   *)
(* are taken as the forest the fetch returns and fed to the transducer.    *)
(***************************************************************************)
InitPublishFetch ==
    /\ tags \in PushDocuments
    /\ events = <<>>
    /\ parsed = NoResult
    /\ rtpc = "build"
    /\ TransducerOff
    /\ SyncOff
    /\ JoinOff
    /\ FetchOff
    /\ ParseOff
    /\ CliOff

\* document.into_iter().flat_map(BlockWithChildrenToCreate::from_markdown_tag);
\* the server keeps each block with the kind, text and children it was
\* created with
PublishBlocks ==
    /\ rtpc = "build"
    /\ tpc = "off"
    /\ input' = FlatMapFromMarkdownTag(tags)
    /\ tpc' = "build"
    /\ rtpc' = "published"
    /\ UNCHANGED <<tags, events, parsed>>
    /\ UNCHANGED <<blocks, parser, output, outAt, last>>
    /\ UNCHANGED <<syncVars, joinVars, fetchVars, parseVars, cliVars>>

NextPublishFetch == PublishBlocks \/ Feed \/ Pull

SpecPublishFetch == InitPublishFetch /\ [][NextPublishFetch]_vars

(***************************************************************************)
(* PulldownCMarkEventParser::parse on any event stream, and                *)
(* get_pulldown_cmark_events on what it returns.  The parser reads the     *)
(* events in order and stops at the first it rejects, so the streams built *)
(* are those it reads to the end and those it rejects at their last event. *)
(***************************************************************************)
\* an event other than Start, End and Text (Event::Rule, Event::SoftBreak, ..)
OtherEvent == [ev |-> "Rule", tag |-> "", arg |-> 0, text |-> ""]

\* headings of a supported and of an unsupported level, paragraphs, ordered
\* lists starting at 1 and at 2 (List(Some(n))), an unordered list
\* (List(None)), items, text
EventAlphabet ==
    {Start("Heading", 1), Start("Heading", 4), End("Heading", 1), End("Heading", 4),
     Start("Paragraph", 0), End("Paragraph", 0),
     Start("List", 1), End("List", 1), Start("List", 2), End("List", 2),
     Start("List", 0),
     Start("Item", 0), End("Item", 0),
     Text("a"), OtherEvent}

RECURSIVE OpenTags(_, _)
\* the Start events of the stream that have no End event yet, innermost last
OpenTags(evs, open) ==
    IF evs = <<>> THEN open
    ELSE IF Head(evs).ev = "Start" THEN OpenTags(Tail(evs), Append(open, Head(evs)))
    ELSE IF Head(evs).ev = "End" /\ open # <<>>
         THEN OpenTags(Tail(evs), SubSeq(open, 1, Len(open) - 1))
    ELSE OpenTags(Tail(evs), open)

\* the End events that close what the stream has left open
Closing(evs) ==
    LET open == OpenTags(evs, <<>>)
    IN  [i \in 1..Len(open) |-> End(open[Len(open) + 1 - i].tag, open[Len(open) + 1 - i].arg)]

\* the stream continued to its end: what it has left open is closed, after
\* one more text where a text is still to come
Continuations(evs) ==
    {evs \o Closing(evs),
     evs \o <<Text("a")>> \o Closing(evs),
     evs \o <<Text("a")>> \o Closing(evs \o <<Start("Paragraph", 0)>>)}

\* the parser has rejected nothing so far: it accepts a continuation
ReadToTheEnd(evs) == \E full \in Continuations(evs) : parse(full).st = "Ok"

InitParse ==
    /\ stream = <<>>
    /\ parseResult = NoResult
    /\ reserialized = <<>>
    /\ ppc = "build"
    /\ RoundTripOff
    /\ TransducerOff
    /\ SyncOff
    /\ JoinOff
    /\ FetchOff
    /\ CliOff

\* the event iterator yields one more event
AppendEvent ==
    /\ ppc = "build"
    /\ Len(stream) < MaxEvents
    /\ ReadToTheEnd(stream)
    /\ \E event \in EventAlphabet : stream' = Append(stream, event)
    /\ UNCHANGED <<parseResult, reserialized, ppc>>
    /\ UNCHANGED notParseVars

\* PulldownCMarkEventParser::new(events).parse()
ParseStream ==
    /\ ppc = "build"
    /\ parseResult' = parse(stream)
    /\ ppc' = "parsed"
    /\ UNCHANGED <<stream, reserialized>>
    /\ UNCHANGED notParseVars

\* parsed_document.iter().flat_map(get_pulldown_cmark_events)
Reserialize ==
    /\ ppc = "parsed"
    /\ parseResult.st = "Ok"
    /\ reserialized' = ChildrenEvents(parseResult.val)
    /\ ppc' = "serialized"
    /\ UNCHANGED <<stream, parseResult>>
    /\ UNCHANGED notParseVars

\* the inline decorations of pulldown_cmark: Tag::Emphasis, Tag::Strong,
\* Tag::Strikethrough
Decorations == {"Emphasis", "Strong", "Strikethrough"}

\* the events with the text run at position i between the start and the end
\* event of a decoration, as pulldown_cmark yields them for _a_, **a**, ~a~
DecorateAt(evs, i, d) ==
    SubSeq(evs, 1, i - 1)
        \o <<Start(d, 0), evs[i], End(d, 0)>>
        \o SubSeq(evs, i + 1, Len(evs))

\* a text run of a document the parser has accepted gets a decoration, and
\* the document is to be parsed again
Decorate ==
    /\ ppc = "parsed"
    /\ parseResult.st = "Ok"
    /\ \E i \in 1..Len(stream), d \in Decorations :
          /\ stream[i].ev = "Text"
          /\ stream' = DecorateAt(stream, i, d)
    /\ parseResult' = NoResult
    /\ ppc' = "build"
    /\ UNCHANGED reserialized
    /\ UNCHANGED notParseVars

NextParse == AppendEvent \/ Decorate \/ ParseStream \/ Reserialize

SpecParse == InitParse /\ [][NextParse]_vars

(***************************************************************************)
(* convert_markdown_to_page of main.rs from its first statement: the       *)
(* markup is parsed, then erase_page and create_blocks run.  The markup is *)
(* given as the events pulldown_cmark::Parser yields for it.               *)
(***************************************************************************)
\* the events of: nothing; "a"; "# a" and "1. a"; "#### a"; "a" and "- a";
\* "---"
MarkupSamples ==
    {<<>>,
     <<Start("Paragraph", 0), Text("a"), End("Paragraph", 0)>>,
     <<Start("Heading", 1), Text("a"), End("Heading", 1),
       Start("List", 1), Start("Item", 0), Text("a"), End("Item", 0), End("List", 1)>>,
     <<Start("Heading", 4), Text("a"), End("Heading", 4)>>,
     <<Start("Paragraph", 0), Text("a"), End("Paragraph", 0),
       Start("List", 0), Start("Item", 0), Text("a"), End("Item", 0), End("List", 0)>>,
     <<OtherEvent>>}

InitConvert ==
    /\ stream \in MarkupSamples
    /\ parseResult = NoResult
    /\ reserialized = <<>>
    /\ ppc = "off"
    /\ doc = <<>>
    /\ initial \in 0..MaxChildren
    /\ existing = 1..initial
    /\ created = <<>>
    /\ listed = <<>>
    /\ hasMore = FALSE
    /\ del = <<>>
    /\ eraseResult = NoOutcome
    /\ tasks = <<>>
    /\ stack = <<>>
    /\ calls = <<>>
    /\ spc = "parse"
    /\ RoundTripOff
    /\ TransducerOff
    /\ JoinOff
    /\ FetchOff
    /\ CliOff

\* let markdown_tags = PulldownCMarkEventParser::new(..).parse(): a panic
\* of the parser ends the program; the Result it returns is bound as it
\* is, Ok or Err, and the next statement runs
MainParse ==
    /\ spc = "parse"
    /\ \E result \in {parse(stream)} :
          /\ parseResult' = result
          /\ doc' = IF result.st = "Ok" THEN result.val ELSE doc
          /\ spc' = IF result.st = "Panic" THEN "panicked" ELSE "start"
    /\ UNCHANGED <<serverVars, eraseVars, tasks, stack, calls>>
    /\ UNCHANGED <<stream, reserialized, ppc>>
    /\ UNCHANGED <<rtVars, trVars, joinVars, fetchVars, cliVars>>

\* erase_page has returned and markdown_tags is an Err: create_blocks takes
\* a &Vec<Tag>, so what the call at this place does with an Err is not
\* fixed by the source; the program makes no create call here, or goes on
\* as for a document without tags (MainEraseReturn)
MainCreateOnErr ==
    /\ spc = "erasing"
    /\ parseResult.st = "Err"
    /\ \A i \in 1..Len(del) : del[i] \in DeleteOutcomes
    /\ spc' = "done"
    /\ UNCHANGED <<serverVars, eraseVars, createVars, calls>>
    /\ UNCHANGED notSyncVars

NextConvert ==
    MainParse \/ MainListCall \/ MainListResponse \/ MainDeleteCall
        \/ MainDeleteResponse \/ MainEraseReturn \/ MainCreateOnErr
        \/ MainCreateCall \/ MainCreateResponse

SpecConvert == InitConvert /\ [][NextConvert]_vars

(***************************************************************************)
(* cli.rs: parse_page_id.  A text is what Uuid::try_parse makes of it: the *)
(* 32 hex digits of a UUID (simple), its hyphenated form, or anything      *)
(* else.  A URL is its host, its path segments, each as the pieces between *)
(* its hyphens, and its query pairs; the path of a URL with a host has at  *)
(* least one segment.                                                      *)
(***************************************************************************)
Simple(n) == [form |-> "simple", uuid |-> n]

Hyphenated(n) == [form |-> "hyphenated", uuid |-> n]

\* a page name, a user name, a group of a hyphenated UUID, the empty string
Slug == [form |-> "text", uuid |-> 0]

\* what a segment holds between its hyphens: a hyphenated UUID is cut by
\* split('-')
PathPieces == {Slug, Simple(1)}

\* the values of a query parameter: another page than the one of the path
QueryValues == {Slug, Simple(2), Hyphenated(2)}

QueryKeys == {"p", "v"}

\* url.host(): the Notion domain, another domain, no host
Hosts == {"www.notion.so", "github.com", "none"}

Url(host, segments, query) ==
    [kind |-> "url", host |-> host, segments |-> segments, query |-> query,
     text |-> Slug]

\* an argument Url::parse does not accept
RawArg(text) ==
    [kind |-> "raw", host |-> "none", segments |-> <<>>, query |-> <<>>, text |-> text]

NoPageId == [st |-> "None", id |-> Slug, from |-> "", err |-> ""]

\* PageId holds the hyphenated form of the UUID
PageOk(id) == [st |-> "Ok", id |-> id, from |-> "", err |-> ""]

PageErr(e) == [st |-> "Err", id |-> Slug, from |-> "", err |-> e]

\* .map_err(Into::into) into ParsePageIdError::Url or ::Uuid
IntoParsePageIdError(result, from) ==
    IF result.st = "Err" THEN [result EXCEPT !.from = from] ELSE result

parse_page_id_from_uuid(text) ==
    IF text.form \in {"simple", "hyphenated"}
    THEN PageOk(Hyphenated(text.uuid))
    ELSE PageErr("CannotParse")

RECURSIVE FindKey(_, _)
\* url.query_pairs().find(|(key, _value)| key == k)
FindKey(query, k) ==
    IF query = <<>> THEN None
    ELSE IF Head(query).key = k THEN Some(Head(query))
    ELSE FindKey(Tail(query), k)

\* reads the path only and ignores the query parameter
parse_page_id_from_path(url) ==
    IF url.host = "none" THEN PageErr("MissingHostname")
    ELSE IF url.host # "www.notion.so" THEN PageErr("NotNotionHostname")
    ELSE IF Len(url.segments) < 2 THEN PageErr("NotEnoughPathSegments")
    ELSE LET second_segment == url.segments[2]
             path_uuid_candidate == second_segment[Len(second_segment)]
             path_uuid == parse_page_id_from_uuid(path_uuid_candidate)
         IN  IF path_uuid.st = "Err" THEN PageErr("InvalidUuidInPath")
             ELSE path_uuid

parse_page_id_from_url(url) ==
    IF url.host = "none" THEN PageErr("MissingHostname")
    ELSE IF url.host # "www.notion.so" THEN PageErr("NotNotionHostname")
    ELSE IF Len(url.segments) < 2 THEN PageErr("NotEnoughPathSegments")
    ELSE LET second_segment == url.segments[2]
             path_uuid_candidate == second_segment[Len(second_segment)]
             path_uuid == parse_page_id_from_uuid(path_uuid_candidate)
             p == FindKey(url.query, "p")
         IN  IF path_uuid.st = "Err" THEN PageErr("InvalidUuidInPath")
             ELSE IF ~p.some THEN path_uuid
             ELSE IF parse_page_id_from_uuid(p.val.value).st = "Err"
                  THEN PageErr("InvalidUuidInQuery")
             ELSE parse_page_id_from_uuid(p.val.value)

parse_page_id(s) ==
    IF s.kind = "url"
    THEN IntoParsePageIdError(parse_page_id_from_url(s), "Url")
    ELSE IntoParsePageIdError(parse_page_id_from_uuid(s.text), "Uuid")

(***************************************************************************)
(* parse_page_id on the --page-id argument                                 *)
(***************************************************************************)
InitPageId ==
    /\ page_arg \in {Url(host, <<(<<Slug>>)>>, <<>>) : host \in Hosts}
                        \cup {RawArg(text) : text \in PathPieces \cup QueryValues}
    /\ page_id = NoPageId
    /\ cpc = "build"
    /\ RoundTripOff
    /\ TransducerOff
    /\ SyncOff
    /\ JoinOff
    /\ FetchOff
    /\ ParseOff

\* the path of a Notion URL gets one more segment; a URL of another host is
\* rejected whatever its path and query
AddSegment ==
    /\ cpc = "build"
    /\ page_arg.kind = "url"
    /\ page_arg.host = "www.notion.so"
    /\ Len(page_arg.segments) < MaxSegments
    /\ \E piece \in PathPieces :
          page_arg' = [page_arg EXCEPT !.segments = Append(@, <<piece>>)]
    /\ UNCHANGED <<page_id, cpc>>
    /\ UNCHANGED notCliVars

\* the last segment of the path gets a hyphen and one more piece; the first
\* segment, which is never read, stays as it is
AddPiece ==
    /\ cpc = "build"
    /\ page_arg.kind = "url"
    /\ Len(page_arg.segments) >= 2
    /\ Len(page_arg.segments[Len(page_arg.segments)]) < MaxPieces
    /\ \E piece \in PathPieces :
          page_arg' = [page_arg EXCEPT !.segments[Len(page_arg.segments)] =
                                           Append(@, piece)]
    /\ UNCHANGED <<page_id, cpc>>
    /\ UNCHANGED notCliVars

\* the URL gets one more query parameter
AddQueryPair ==
    /\ cpc = "build"
    /\ page_arg.kind = "url"
    /\ page_arg.host = "www.notion.so"
    /\ Len(page_arg.query) < MaxQueryPairs
    /\ \E key \in QueryKeys, value \in QueryValues :
          page_arg' = [page_arg EXCEPT !.query =
                                           Append(@, [key |-> key, value |-> value])]
    /\ UNCHANGED <<page_id, cpc>>
    /\ UNCHANGED notCliVars

\* page_id_parser: parse_page_id(s)
ParsePageId ==
    /\ cpc = "build"
    /\ page_id' = parse_page_id(page_arg)
    /\ cpc' = "parsed"
    /\ UNCHANGED page_arg
    /\ UNCHANGED notCliVars

NextPageId == AddSegment \/ AddPiece \/ AddQueryPair \/ ParsePageId

SpecPageId == InitPageId /\ [][NextPageId]_vars

(***************************************************************************)
(* The grouping the transducer is specified to compute, stated directly.   *)
(***************************************************************************)
IsListItem(b) == b.block.kind = "NumberedListItem"

RECURSIVE SupportedBlocks(_)
\* every block, at every depth, is of a kind parse_block converts
SupportedBlocks(bs) ==
    \A i \in 1..Len(bs) :
        /\ bs[i].block.kind \in SupportedKinds
        /\ SupportedBlocks(bs[i].children)

RECURSIVE ListRun(_)
\* the length of the run of list items a block sequence starts with
ListRun(bs) == IF bs # <<>> /\ IsListItem(Head(bs)) THEN 1 + ListRun(Tail(bs)) ELSE 0

TextOf(b) == [i \in 1..Len(b.block.rich_text) |-> RichText(b.block.rich_text[i].content)]

TagOf(b) ==
    IF b.block.kind = "Paragraph" THEN Paragraph(TextOf(b))
    ELSE Heading(HeadingLevelOf(b.block.kind), TextOf(b))

RECURSIVE GroupBlocks(_)
\* each maximal run of list items is one OrderedList, any other block one tag
GroupBlocks(bs) ==
    IF bs = <<>> THEN <<>>
    ELSE IF IsListItem(Head(bs))
         THEN LET n == ListRun(bs)
              IN  <<OrderedList([i \in 1..n |->
                        OrderedListItem(TextOf(bs[i]), GroupBlocks(bs[i].children))])>>
                      \o GroupBlocks(SubSeq(bs, n + 1, Len(bs)))
         ELSE <<TagOf(Head(bs))>> \o GroupBlocks(Tail(bs))

IsPrefix(a, b) == Len(a) <= Len(b) /\ a = SubSeq(b, 1, Len(a))

\* C2: for supported blocks the tags pulled until the iterator ends are the
\* reference grouping of the input: one OrderedList per maximal run of list
\* items, one tag per other block, in input order.
C2_Grouping ==
    SupportedBlocks(input) =>
        /\ tpc # "panicked"
        /\ tpc = "ended" => output = GroupBlocks(input)

\* two list items between two other blocks were grouped
C2_Witness ==
    /\ tpc = "ended"
    /\ SupportedBlocks(input)
    /\ Len(input) = 3
    /\ Len(output) = 2
    /\ output[1].type = "OrderedList"
    /\ Len(output[1].items) = 2
    /\ output[2].type # "OrderedList"

\* N >= 1 list items followed by one other block, and nothing else
ListThenOther(bs) ==
    /\ Len(bs) >= 2
    /\ ListRun(bs) = Len(bs) - 1
    /\ SupportedBlocks(bs)

\* C3: N >= 1 list items followed by one other block give exactly two tags,
\* the OrderedList of the N items first and the other tag after it.
C3_ListThenOther ==
    (ListThenOther(input) /\ tpc \in {"iterating", "ended"}) =>
        LET n == Len(input) - 1
            expected ==
                <<OrderedList([i \in 1..n |->
                      OrderedListItem(TextOf(input[i]), GroupBlocks(input[i].children))]),
                  TagOf(input[n + 1])>>
        IN  /\ IsPrefix(output, expected)
            /\ tpc = "ended" => output = expected

\* two list items and a paragraph or heading were pulled to the end
C3_Witness ==
    /\ tpc = "ended"
    /\ ListThenOther(input)
    /\ Len(input) = 3
    /\ Len(output) = 2

\* C4: a pull on exhausted input emits the pending list or the buffered tag
\* and takes the parser, or emits nothing when Idle; once the parser is taken
\* every pull returns None and emits nothing.
C4_Flush ==
    [][/\ (tpc = "iterating" /\ parser.some /\ blocks = <<>>) =>
            /\ ~parser'.some
            /\ CASE parser.val.st = "ProcessingList" ->
                        /\ output' = Append(output, OrderedList(parser.val.items))
                        /\ tpc' = "iterating"
                 [] parser.val.st = "WithBufferedTag" ->
                        /\ output' = Append(output, parser.val.tag)
                        /\ tpc' = "iterating"
                 [] parser.val.st = "Idle" ->
                        /\ output' = output
                        /\ tpc' = "ended"
       /\ (tpc \in {"iterating", "ended"} /\ ~parser.some) =>
            /\ output' = output
            /\ ~last'.some
            /\ tpc' = "ended"]_vars

\* the input ended in ProcessingList after a buffered tag: the list was
\* flushed and the next pull returned None
C4_Witness ==
    /\ tpc = "ended"
    /\ Len(output) = 3
    /\ output[2].type # "OrderedList"
    /\ output[3].type = "OrderedList"
    /\ outAt[3] = Len(input)
    /\ outAt[2] = Len(input)

(***************************************************************************)
(* Properties of the erase                                                 *)
(***************************************************************************)
Issued(i) == del[i] # "pending"

Returned(i) == del[i] \in DeleteOutcomes

\* C8: at most one delete call of an erase is in flight at any time.
C8_Sequential == Cardinality(InFlight) <= 1

\* C9: once the delete of a listed child has failed, no delete call has been
\* issued for a later listed child, and the error of erase_page names the
\* first child whose delete failed.
C9_FirstErrorAbort ==
    /\ \A k \in 1..Len(del) :
          del[k] = "failed" => \A j \in (k + 1)..Len(del) : ~Issued(j)
    /\ (spc = "done" /\ \E k \in 1..Len(del) : del[k] = "failed") =>
          /\ eraseResult.st = "Err"
          /\ eraseResult.err = "DeleteBlockFailed"
          /\ del[eraseResult.block_id] = "failed"

\* C10: when erase_page returns Ok, each child the container had has been
\* the target of exactly one delete call and none of them is left.
C10_AllErased ==
    (spc = "done" /\ eraseResult.st = "Ok") =>
        /\ \A id \in 1..initial :
              Cardinality({c \in 1..Len(calls) :
                  calls[c].op = "delete" /\ calls[c].target = id}) = 1
        /\ existing = {}

(***************************************************************************)
(* Properties of the creation                                              *)
(***************************************************************************)
CreateCalls == {c \in 1..Len(calls) : calls[c].op = "create"}

BlocksOf(bs) == [i \in 1..Len(bs) |-> bs[i].block]

RECURSIVE CountParents(_)
\* the blocks of a forest that have children to create
CountParents(bs) ==
    IF bs = <<>> THEN 0
    ELSE (IF Head(bs).children = <<>> THEN 0 ELSE 1)
             + CountParents(Head(bs).children) + CountParents(Tail(bs))

CreateSucceeded == spc = "done" /\ tasks # <<>> /\ tasks[1].errors = <<>>

\* C5: when create_blocks has returned Ok, for every call of it and every
\* block of that call with children, one create call carries exactly those
\* children to the identifier the response returned at the block's index.
C5_CreationPairing ==
    CreateSucceeded =>
        \A t \in 1..Len(tasks) : \A i \in 1..Len(tasks[t].blocks) :
            tasks[t].blocks[i].children # <<>> =>
                \E c \in CreateCalls :
                    /\ calls[c].target = tasks[t].ids[i]
                    /\ calls[c].children = BlocksOf(tasks[t].blocks[i].children)

\* C6: when create_blocks has returned Ok, it has issued one create call for
\* the container and one for every block that has children, and no other.
C6_CreateCallCount ==
    CreateSucceeded =>
        Cardinality(CreateCalls) = 1 + CountParents(tasks[1].blocks)

(***************************************************************************)
(* Properties of the push                                                  *)
(***************************************************************************)
\* C7: a create call is issued only after the listing and after every
\* delete call of the erase has returned, and whenever a block of the new
\* tree exists, no child the page had before the push is left.
C7_PushOrdering ==
    /\ CreateCalls # {} =>
          /\ \E c \in 1..Len(calls) : calls[c].op = "list"
          /\ spc \notin {"start", "listing"}
          /\ \A i \in 1..Len(del) : del[i] \in DeleteOutcomes
    /\ created # <<>> => existing = {}

(***************************************************************************)
(* Properties of the join                                                  *)
(***************************************************************************)
ErrorsOf(errs) == {errs[i] : i \in 1..Len(errs)}

FetchReturned == fpc = "done"

FetchedOk == FetchReturned /\ fetches[1].value.st = "Ok"

RECURSIVE InListingOrder(_, _)
\* every block of the returned forest is the block the server has at the
\* same place: the i-th below the block it is returned under
InListingOrder(forest, path) ==
    /\ Len(forest) <= Len(ChildrenAt(remote, path))
    /\ \A i \in 1..Len(forest) :
          /\ forest[i].block =
                 ListedBlock(Append(path, i), ChildrenAt(remote, path)[i])
          /\ InListingOrder(forest[i].children, Append(path, i))

\* C12: whatever the order in which the concurrent list-children calls
\* complete, the forest get_all_block_children returns has at every level
\* listed the blocks of that listing, all of them and in its order, each
\* with children of its own.
C12_OrderPreserved ==
    FetchedOk =>
        /\ InListingOrder(fetches[1].value.val, <<>>)
        /\ \A c \in 1..Len(fetchCalls) :
              Len(ChildrenAt(fetches[1].value.val, fetchCalls[c]))
                  = Len(ChildrenAt(remote, fetchCalls[c]))

\* two sibling calls completed in the reverse of their listing order
C12_Witness ==
    /\ FetchedOk
    /\ \E a, b \in 1..Len(fetches) :
          /\ a < b
          /\ fetches[a].by = fetches[b].by
          /\ fetches[b].finished < fetches[a].finished
          /\ fetches[a].value.val # <<>>
          /\ fetches[b].value.val # <<>>

\* C13: a recursive list-children call is made for a listed block exactly
\* when its has_children flag is true, whatever its kind.
C13_RecurseIffHasChildren ==
    \A t \in 1..Len(fetches) : \A i \in 1..Len(fetches[t].listed) :
        (fetches[t].subs[i] # 0) <=> fetches[t].listed[i].has_children

\* C14: when a list-children response has has_more set, the call does not
\* end in any other way than by returning the PaginationRequired error.
C14_PaginationRequired ==
    (\E t \in 1..Len(fetches) : fetches[t].has_more) =>
        /\ fpc # "panicked"
        /\ FetchReturned => fetches[1].value = FetchErr("PaginationRequired")

FailedFetches == {t \in 1..Len(fetches) : fetches[t].value.st = "Err"}

\* C15: once a list-children call of the recursion has failed, what the
\* top-level call returns is an error, never Ok with a forest.
C15_FailurePropagates ==
    (FetchReturned /\ FailedFetches # {}) => fetches[1].value.st = "Err"

\* the call of a nested level failed after a sibling call had returned Ok
C15_Witness ==
    /\ FetchReturned
    /\ fetches[1].value.st = "Err"
    /\ \E a, b \in 1..Len(fetches) :
          /\ a # b
          /\ fetches[a].by = 1
          /\ fetches[b].by = 1
          /\ fetches[a].value.st = "Ok"
          /\ fetches[b].st = "done"
          /\ fetches[b].value.st = "Err"
          /\ fetches[a].finished < fetches[b].finished

(***************************************************************************)
(* Properties of the transducer on unsupported blocks                      *)
(***************************************************************************)
\* C16: fed a block of a kind other than heading 1-3, paragraph and
\* numbered-list item, the conversion reports an error to its caller: it
\* does not panic, and it does not end with a tag sequence that omits the
\* block.
C16_UnhandledBlockKind ==
    ~SupportedBlocks(input) => tpc \notin {"panicked", "ended"}

(***************************************************************************)
(* Properties of the parser on any event stream                            *)
(***************************************************************************)
Parsed == ppc \in {"parsed", "serialized"}

\* the constructs before the k-th event are complete and accepted
AcceptedBefore(evs, k) == \E before \in {SubSeq(evs, 1, k - 1)} : parse(before).st = "Ok"

\* C17: a heading start of level 4 that follows any number of accepted
\* constructs makes parse return the heading-level ParseError with that
\* level, and no tags.
C17_UnsupportedHeadingLevel ==
    Parsed =>
        \A k \in 1..Len(stream) :
            (stream[k] = Start("Heading", 4) /\ AcceptedBefore(stream, k)) =>
                parseResult = Err("UnexpectedHeadingLevel", 4)

\* the heading of level 4 comes after an accepted construct
C17_Witness ==
    /\ ppc = "parsed"
    /\ \E k \in 2..Len(stream) :
          stream[k] = Start("Heading", 4) /\ AcceptedBefore(stream, k)
    /\ parseResult.st = "Err"
    /\ parseResult.val = <<>>

\* the first construct of the stream has not the expected shape: a stray
\* End or Text, a heading or paragraph without text or not followed by its
\* end event, a list continued by something else than an item or its end, an
\* item that starts with neither text nor a paragraph
ViolatesShape(evs) ==
    \/ /\ Len(evs) >= 1
       /\ evs[1].ev \in {"End", "Text"}
    \/ /\ Len(evs) >= 2
       /\ evs[1] \in {Start("Heading", 1), Start("Paragraph", 0)}
       /\ evs[2].ev # "Text"
    \/ /\ Len(evs) >= 3
       /\ evs[1] \in {Start("Heading", 1), Start("Paragraph", 0)}
       /\ evs[2].ev = "Text"
       /\ evs[3].ev # "Text"
       /\ ~(evs[3].ev = "End" /\ evs[3].tag = evs[1].tag)
    \/ /\ Len(evs) >= 2
       /\ evs[1] = Start("List", 1)
       /\ evs[2] \notin {Start("Item", 0), End("List", 1)}
    \/ /\ Len(evs) >= 3
       /\ evs[1] = Start("List", 1)
       /\ evs[2] = Start("Item", 0)
       /\ evs[3].ev # "Text"
       /\ evs[3] # Start("Paragraph", 0)

\* C18: on an event stream that violates the expected shapes parse returns
\* a ParseError.
C18_MalformedIsParseError ==
    (Parsed /\ ViolatesShape(stream)) => parseResult.st = "Err"

\* the stream ends inside a construct: closing what is open completes it to
\* a stream the parser accepts
Unfinished(evs) ==
    /\ Closing(evs) # <<>>
    /\ \E full \in {evs \o Closing(evs)} : parse(full).st = "Ok"

\* C19: when the stream ends while a heading, paragraph, list or list item
\* is open, parse returns an error.
C19_TruncatedIsError ==
    (Parsed /\ Unfinished(stream)) => parseResult.st = "Err"

\* C20: serializing the tags parsed from an accepted stream reproduces the
\* stream, event for event.
C20_ParseThenSerialize == ppc = "serialized" => reserialized = stream

RECURSIVE HeadingEndsMatch(_, _)
\* every End(Heading) carries the level of the heading it ends
HeadingEndsMatch(evs, level) ==
    IF evs = <<>> THEN TRUE
    ELSE IF Head(evs).tag = "Heading" /\ Head(evs).ev = "Start"
         THEN HeadingEndsMatch(Tail(evs), Head(evs).arg)
    ELSE IF Head(evs).tag = "Heading" /\ Head(evs).ev = "End"
         THEN Head(evs).arg = level /\ HeadingEndsMatch(Tail(evs), level)
    ELSE HeadingEndsMatch(Tail(evs), level)

\* the form the serializer writes: lists start at 1, the text of an item is
\* in a paragraph, a heading ends with the level it started with
SerializerForm(evs) ==
    /\ \A i \in 1..Len(evs) :
          /\ evs[i].tag = "List" => evs[i].arg = 1
          /\ evs[i] = Start("Item", 0) =>
                (i < Len(evs) /\ evs[i + 1] = Start("Paragraph", 0))
    /\ HeadingEndsMatch(evs, 0)

\* C20, amended: serializing the tags parsed from an accepted stream that
\* is in the serializer's form reproduces the stream, event for event.
C20_SerializerFormIdentity ==
    (ppc = "serialized" /\ SerializerForm(stream)) => reserialized = stream

\* an accepted list with an item has been parsed and serialized again
C20_Witness ==
    /\ ppc = "serialized"
    /\ SerializerForm(stream)
    /\ \E i \in 1..Len(stream) : stream[i] = Start("Item", 0)
    /\ reserialized = stream

(***************************************************************************)
(* Inline decorations                                                      *)
(***************************************************************************)
IsDecoration(event) == event.ev \in {"Start", "End"} /\ event.tag \in Decorations

RECURSIVE Undecorated(_)
\* the stream without its decoration events
Undecorated(evs) ==
    IF evs = <<>> THEN <<>>
    ELSE IF IsDecoration(Head(evs)) THEN Undecorated(Tail(evs))
    ELSE <<Head(evs)>> \o Undecorated(Tail(evs))

\* a document the parser accepts, with a decoration around one of its text
\* runs
DecoratedDocument(evs) ==
    /\ \E i \in 1..Len(evs) : IsDecoration(evs[i])
    /\ \E plain \in {Undecorated(evs)} :
          /\ parse(plain).st = "Ok"
          /\ \E i \in 1..Len(plain), d \in Decorations :
                plain[i].ev = "Text" /\ evs = DecorateAt(plain, i, d)

\* C21: a document whose heading, paragraph or list-item text carries
\* inline decoration events is parsed successfully.
C21_DecoratedTextParses ==
    (Parsed /\ DecoratedDocument(stream)) => parseResult.st = "Ok"

(***************************************************************************)
(* Invariants of the data model                                            *)
(***************************************************************************)
RECURSIVE TextCarried(_)
\* every Heading and Paragraph of the tags, at every depth, has a text run
TextCarried(ts) ==
    \A i \in 1..Len(ts) :
        IF ts[i].type = "OrderedList"
        THEN \A j \in 1..Len(ts[i].items) : TextCarried(ts[i].items[j].children)
        ELSE ts[i].text # <<>>

\* C22: every Heading and Paragraph the transducer emits, at any depth,
\* carries at least one RichText run.
C22_TextCarried == output # <<>> => TextCarried(output)

RECURSIVE ItemsCarried(_)
\* every OrderedList of the tags, at every depth, has an item
ItemsCarried(ts) ==
    \A i \in 1..Len(ts) :
        ts[i].type = "OrderedList" =>
            /\ ts[i].items # <<>>
            /\ \A j \in 1..Len(ts[i].items) : ItemsCarried(ts[i].items[j].children)

\* C23: every OrderedList in a result the parser returns, at any depth, has
\* at least one item.
C23_ItemsCarried == parseResult.st = "Ok" => ItemsCarried(parseResult.val)

(***************************************************************************)
(* Properties of the serializer                                            *)
(***************************************************************************)
RECURSIVE NestedFrom(_, _)
\* every End event closes the innermost open Start event, of the same tag,
\* and nothing is left open at the end
NestedFrom(evs, open) ==
    IF evs = <<>> THEN open = <<>>
    ELSE IF Head(evs).ev = "Start"
         THEN NestedFrom(Tail(evs), Append(open, Head(evs)))
    ELSE IF Head(evs).ev = "End"
         THEN /\ open # <<>>
              /\ open[Len(open)].tag = Head(evs).tag
              /\ open[Len(open)].arg = Head(evs).arg
              /\ NestedFrom(Tail(evs), SubSeq(open, 1, Len(open) - 1))
    ELSE NestedFrom(Tail(evs), open)

\* the pulldown_cmark tag a Tag is written as
CMarkTagOf(tag) ==
    CASE tag.type = "Heading" -> [tag |-> "Heading", arg |-> tag.level]
      [] tag.type = "Paragraph" -> [tag |-> "Paragraph", arg |-> 0]
      [] tag.type = "OrderedList" -> [tag |-> "List", arg |-> 1]

\* the events are those of one construct of the tag's kind: its Start event,
\* well-nested events, its End event
Encloses(tag, evs) ==
    /\ Len(evs) >= 2
    /\ evs[1] = Start(CMarkTagOf(tag).tag, CMarkTagOf(tag).arg)
    /\ evs[Len(evs)] = End(CMarkTagOf(tag).tag, CMarkTagOf(tag).arg)
    /\ NestedFrom(SubSeq(evs, 2, Len(evs) - 1), <<>>)

\* C24: for every Tag, also one with empty text or an empty list,
\* get_pulldown_cmark_events returns events that start with the tag's Start
\* event, end with its matching End event and are properly nested between;
\* so are the events of the whole document.
C24_SerializerWellFormed ==
    rtpc \in {"serialized", "parsed"} =>
        /\ NestedFrom(events, <<>>)
        /\ \A i \in 1..Len(tags) :
              \A evs \in {get_pulldown_cmark_events(tags[i])} : Encloses(tags[i], evs)

\* a document with a heading without text and a list nested in a list item
\* has been serialized
C24_Witness ==
    /\ rtpc = "serialized"
    /\ \E i \in 1..Len(tags) :
          /\ tags[i].type = "Heading"
          /\ tags[i].text = <<>>
    /\ \E i \in 1..Len(tags) :
          /\ tags[i].type = "OrderedList"
          /\ \E j \in 1..Len(tags[i].items) :
                /\ tags[i].items[j].children # <<>>
                /\ tags[i].items[j].children[1].type = "OrderedList"
    /\ events # <<>>

(***************************************************************************)
(* No retries                                                              *)
(***************************************************************************)
\* the list-children calls issued for a block
ListCallsFor(path) == {i \in 1..Len(fetchCalls) : fetchCalls[i] = path}

\* one call for the page, at most one for each block of the forest, none for
\* anything else
NoRetry ==
    fpc # "build" =>
        /\ Cardinality(ListCallsFor(<<>>)) = 1
        /\ \A i \in 1..Len(fetchCalls) :
              /\ fetchCalls[i] \in PathsOf(remote)
              /\ Cardinality(ListCallsFor(fetchCalls[i])) = 1

\* get_all_block_children on the page has returned, or has stopped at the
\* pagination todo!()
FetchEnded == fpc \in {"done", "panicked"}

NotionUrl(s) == s.kind = "url" /\ s.host = "www.notion.so"

WellFormedId(text) == text.form \in {"simple", "hyphenated"}

\* the first query parameter p, if any
FirstP(s) == FindKey(s.query, "p")

\* the text after the last hyphen of the second path segment
PathCandidate(s) == s.segments[2][Len(s.segments[2])]

\* C26: for a URL of host www.notion.so, parse_page_id returns the
\* identifier of the query parameter p when p is present and well-formed,
\* whatever the path holds, and the identifier after the last hyphen of the
\* second path segment when p is absent.
C26_QueryOverridesPath ==
    (cpc = "parsed" /\ NotionUrl(page_arg)) =>
        /\ (FirstP(page_arg).some /\ WellFormedId(FirstP(page_arg).val.value))
              => page_id = PageOk(Hyphenated(FirstP(page_arg).val.value.uuid))
        /\ (~FirstP(page_arg).some /\ Len(page_arg.segments) >= 2
                /\ WellFormedId(PathCandidate(page_arg)))
              => page_id = PageOk(Hyphenated(PathCandidate(page_arg).uuid))

\* C26, amended: for a URL of host www.notion.so whose second path segment
\* ends, after its last hyphen, in a well-formed identifier, parse_page_id
\* returns the identifier of the query parameter p when p is present and
\* well-formed, and the identifier of the path when p is absent.
C26_QueryOverridesPathId ==
    (cpc = "parsed" /\ NotionUrl(page_arg) /\ Len(page_arg.segments) >= 2
        /\ WellFormedId(PathCandidate(page_arg))) =>
        /\ (FirstP(page_arg).some /\ WellFormedId(FirstP(page_arg).val.value))
              => page_id = PageOk(Hyphenated(FirstP(page_arg).val.value.uuid))
        /\ ~FirstP(page_arg).some
              => page_id = PageOk(Hyphenated(PathCandidate(page_arg).uuid))

\* a URL with a page name and an identifier in its path and, after another
\* query parameter, the identifier of another page in p has been parsed
C26_Witness ==
    /\ cpc = "parsed"
    /\ NotionUrl(page_arg)
    /\ Len(page_arg.segments) >= 2
    /\ page_arg.segments[2] = <<Slug, Simple(1)>>
    /\ Len(page_arg.query) = 2
    /\ page_arg.query[1].key = "v"
    /\ page_arg.query[2] = [key |-> "p", value |-> Simple(2)]
    /\ page_id = PageOk(Hyphenated(2))

(***************************************************************************)
(* The transitions of the transducer, block by block                       *)
(***************************************************************************)
\* the parser is about to consume a block of a supported kind
Consuming ==
    /\ tpc = "iterating"
    /\ parser.some
    /\ blocks # <<>>
    /\ SupportedBlocks(<<Head(blocks)>>)

\* the item a numbered-list block is converted to
ItemOf(b) == OrderedListItem(TextOf(b), GroupBlocks(b.children))

NoListItems(bs) == \A i \in 1..Len(bs) : ~IsListItem(bs[i])

\* C27: in Idle a list item emits nothing and moves to ProcessingList with
\* that one item; any other supported block is emitted on the turn that
\* consumes it and the state stays Idle.  M blocks with no list item among
\* them give M tags, none an OrderedList, and the final flush has nothing
\* to emit.
C27_IdleTransitions ==
    /\ [][(Consuming /\ parser.val = Idle) =>
            IF IsListItem(Head(blocks))
            THEN /\ parser' = Some(ProcessingList(<<ItemOf(Head(blocks))>>))
                 /\ ~last'.some
                 /\ output' = output
            ELSE /\ parser' = Some(Idle)
                 /\ last' = Some(TagOf(Head(blocks)))
                 /\ output' = Append(output, TagOf(Head(blocks)))]_vars
    /\ []((tpc \in {"iterating", "ended"} /\ SupportedBlocks(input)
                /\ NoListItems(input)) =>
            /\ output = [i \in 1..(Len(input) - Len(blocks)) |-> TagOf(input[i])]
            /\ parser.some => parser.val = Idle
            /\ ~parser.some => ~last.some)

\* four blocks, none a list item, were consumed and the flush returned None
C27_Witness ==
    /\ tpc = "ended"
    /\ SupportedBlocks(input)
    /\ NoListItems(input)
    /\ Len(input) = 4
    /\ Len(output) = 4
    /\ ~last.some

\* C28: in ProcessingList(items) a list item is appended at the end, the
\* state stays ProcessingList and nothing is emitted; any other supported
\* block emits OrderedList{items}, all pending items in order, and moves to
\* WithBufferedTag holding the new tag, which is not emitted on that turn.
C28_ProcessingListTransitions ==
    [][(Consuming /\ parser.val.st = "ProcessingList") =>
          IF IsListItem(Head(blocks))
          THEN /\ parser' = Some(ProcessingList(
                                Append(parser.val.items, ItemOf(Head(blocks)))))
               /\ ~last'.some
               /\ output' = output
          ELSE /\ parser' = Some(WithBufferedTag(TagOf(Head(blocks))))
               /\ last' = Some(OrderedList(parser.val.items))
               /\ output' = Append(output, OrderedList(parser.val.items))]_vars

\* a list of two different items was emitted when the paragraph or heading
\* after it was consumed, and that tag is buffered
C28_Witness ==
    /\ tpc = "iterating"
    /\ parser.some
    /\ parser.val.st = "WithBufferedTag"
    /\ last.some
    /\ last.val.type = "OrderedList"
    /\ Len(last.val.items) = 2
    /\ last.val.items[1] # last.val.items[2]
    /\ output = <<last.val>>

\* C29: in WithBufferedTag(tag) a list item emits the buffered tag and
\* moves to ProcessingList holding that one item; any other supported block
\* emits the buffered tag and moves to WithBufferedTag holding the new tag.
\* The tag emitted is the older one, never the new one.
C29_WithBufferedTagTransitions ==
    [][(Consuming /\ parser.val.st = "WithBufferedTag") =>
          /\ last' = Some(parser.val.tag)
          /\ output' = Append(output, parser.val.tag)
          /\ parser' = IF IsListItem(Head(blocks))
                       THEN Some(ProcessingList(<<ItemOf(Head(blocks))>>))
                       ELSE Some(WithBufferedTag(TagOf(Head(blocks))))]_vars

\* a buffered paragraph was emitted when a heading was consumed, and the
\* heading is buffered in its place
C29_Witness ==
    /\ tpc = "iterating"
    /\ parser.some
    /\ parser.val.st = "WithBufferedTag"
    /\ parser.val.tag.type = "Heading"
    /\ last.some
    /\ last.val.type = "Paragraph"
    /\ Len(output) = 2
    /\ output[1].type = "OrderedList"

\* the number of top-level blocks the loop has consumed
Consumed == Len(input) - Len(blocks)

\* the tag of the k-th block was returned on the turn that consumed block k
\* or block k + 1; the flush is recorded at the last block
EmittedWithin(k) ==
    \E p \in 1..Len(output) :
        /\ output[p] = TagOf(input[k])
        /\ outAt[p] \in {k, k + 1}

\* C30: the tag of a heading or paragraph at position k has been emitted
\* once block k + 1 is consumed, on the turn of block k or of block k + 1,
\* or by the flush at the end of the input when k is the last block, never
\* later; and each turn emits at most one tag.
C30_BoundedWithholding ==
    /\ [](\A k \in 1..Len(input) :
            ( /\ tpc # "build"
              /\ SupportedBlocks(<<input[k]>>)
              /\ ~IsListItem(input[k])
              /\ (Consumed >= k + 1 \/ ~parser.some) ) => EmittedWithin(k))
    /\ [][Len(output') <= Len(output) + 1]_vars

\* a list item, a paragraph and a heading: the list came out on the turn of
\* the paragraph, the paragraph on the turn of the heading and the heading
\* at the flush
C30_Witness ==
    /\ tpc = "ended"
    /\ Len(input) = 3
    /\ IsListItem(input[1])
    /\ input[2].block.kind = "Paragraph"
    /\ input[3].block.kind = "Heading1"
    /\ output = <<OrderedList(<<ItemOf(input[1])>>), TagOf(input[2]), TagOf(input[3])>>
    /\ outAt = <<2, 3, 3>>

(***************************************************************************)
(* Nested conversion                                                       *)
(***************************************************************************)
\* Self::default().feed(bs.iter()).collect(): everything a fresh parser
\* returns for the blocks bs
FreshOutput(bs) == Collect(Some(Idle), bs, <<>>).val

\* the item of a list-item block, its children converted by a fresh parser
FreshItemOf(b) == OrderedListItem(TextOf(b), FreshOutput(b.children))

RECURSIVE ItemsOfLists(_), ItemsOfListBlocks(_)
\* the items of the OrderedList tags of a sequence, in order
ItemsOfLists(ts) ==
    IF ts = <<>> THEN <<>>
    ELSE (IF Head(ts).type = "OrderedList" THEN Head(ts).items ELSE <<>>)
             \o ItemsOfLists(Tail(ts))

\* the items of the list-item blocks of one level, in order
ItemsOfListBlocks(bs) ==
    IF bs = <<>> THEN <<>>
    ELSE (IF IsListItem(Head(bs)) THEN <<FreshItemOf(Head(bs))>> ELSE <<>>)
             \o ItemsOfListBlocks(Tail(bs))

\* C31: the children of every item the transducer produces are the whole
\* output of a fresh transducer run over the block's own children; the
\* conversion of the children leaves the enclosing state as it was, apart
\* from the new item; and the items of the lists of one level are the
\* list-item blocks of that level, none from a deeper one.
C31_NestedConversion ==
    /\ []((tpc = "ended" /\ SupportedBlocks(input)) =>
             ItemsOfLists(output) = ItemsOfListBlocks(input))
    /\ [][(Consuming /\ IsListItem(Head(blocks))) =>
             /\ parser'.val.st = "ProcessingList"
             /\ parser'.val.items =
                   IF parser.val.st = "ProcessingList"
                   THEN Append(parser.val.items, FreshItemOf(Head(blocks)))
                   ELSE <<FreshItemOf(Head(blocks))>>]_vars

\* a list item with a nested list item and a paragraph under it, between
\* two list items of the top level
C31_Witness ==
    /\ tpc = "ended"
    /\ SupportedBlocks(input)
    /\ Len(output) = 1
    /\ output[1].type = "OrderedList"
    /\ Len(output[1].items) = 2
    /\ Len(output[1].items[1].children) = 2
    /\ output[1].items[1].children[1].type = "OrderedList"
    /\ output[1].items[1].children[2].type = "Paragraph"
    /\ output[1].items[2].children = <<>>

(***************************************************************************)
(* The order of the creation                                               *)
(***************************************************************************)
\* the identifiers the successful create responses have returned so far
AssignedIds == {NewId(k) : k \in 1..Len(created)}

\* the request of call t was answered with a failure on this step
BatchFails(t) == tasks[t].st = "inflight" /\ tasks'[t].st = "done"

SubFetches(t) == {u \in 1..Len(fetches) : fetches[u].by = t}

RECURSIVE InlineItems(_), InlineRun(_)
\* the same events with the content of every item as Text events directly
\* inside the item, without the paragraph around them
InlineItems(evs) ==
    IF evs = <<>> THEN <<>>
    ELSE IF /\ Len(evs) >= 2
            /\ evs[1] = Start("Item", 0)
            /\ evs[2] = Start("Paragraph", 0)
         THEN <<evs[1]>> \o InlineRun(Tail(Tail(evs)))
         ELSE <<Head(evs)>> \o InlineItems(Tail(evs))

\* the Text events of an item's paragraph, its end event left out
InlineRun(evs) ==
    IF evs = <<>> THEN <<>>
    ELSE IF Head(evs) = End("Paragraph", 0) THEN InlineItems(Tail(evs))
    ELSE <<Head(evs)>> \o InlineRun(Tail(evs))

\* C34: the events of a well-formed document parse to the same tags when the
\* content of its list items is inline text as when it is a paragraph: the
\* same item text, and as children the constructs between the content and
\* the end of the item, all of them and in order, at every depth.
C34_ItemContentForms ==
    (rtpc = "parsed" /\ WellFormedTags(tags)) =>
        \E inline \in {InlineItems(events)} :
            \E r \in {parse(inline)} :
                /\ r.st = "Ok"
                /\ r.val = tags
                /\ parsed.st = "Ok"
                /\ parsed.val = r.val

\* an item with two different constructs after its content, parsed in both
\* forms
C34_Witness ==
    /\ rtpc = "parsed"
    /\ WellFormedTags(tags)
    /\ parsed.st = "Ok"
    /\ Len(tags) = 1
    /\ tags[1].type = "OrderedList"
    /\ Len(tags[1].items[1].children) = 2
    /\ tags[1].items[1].children[1].type = "Paragraph"
    /\ tags[1].items[1].children[2].type = "Heading"
    /\ parsed.val[1].items[1].children = tags[1].items[1].children
    /\ InlineItems(events) # events

(***************************************************************************)
(* The blocks made of the tags                                             *)
(***************************************************************************)
RECURSIVE LevelCount(_)
\* the tags of one level that are not lists, plus the items of its lists
LevelCount(ts) ==
    IF ts = <<>> THEN 0
    ELSE (IF Head(ts).type = "OrderedList" THEN Len(Head(ts).items) ELSE 1)
             + LevelCount(Tail(ts))

\* the block of a heading or paragraph: its kind and text, no children
LeafBlockOf(b, tag) ==
    /\ b.children = <<>>
    /\ b.block.rich_text = [i \in 1..Len(tag.text) |-> NotionText(tag.text[i].text)]
    /\ b.block.kind = IF tag.type = "Paragraph" THEN "Paragraph"
                      ELSE KindOfLevel(tag.level)

RECURSIVE BlocksOfTags(_, _)
\* bs is, tag by tag, one childless block for a heading or paragraph and,
\* for a list, one NumberedListItem per item in item order whose children
\* are the blocks of the item's children
BlocksOfTags(bs, ts) ==
    IF ts = <<>> THEN bs = <<>>
    ELSE IF Head(ts).type = "OrderedList"
         THEN LET items == Head(ts).items
              IN  /\ Len(bs) >= Len(items)
                  /\ \A i \in 1..Len(items) :
                        /\ bs[i].block.kind = "NumberedListItem"
                        /\ bs[i].block.rich_text =
                              [j \in 1..Len(items[i].text) |->
                                  NotionText(items[i].text[j].text)]
                        /\ BlocksOfTags(bs[i].children, items[i].children)
                  /\ BlocksOfTags(SubSeq(bs, Len(items) + 1, Len(bs)), Tail(ts))
         ELSE /\ bs # <<>>
              /\ LeafBlockOf(Head(bs), Head(ts))
              /\ BlocksOfTags(Tail(bs), Tail(ts))

RECURSIVE Publishable(_)
\* no list is empty and no list follows a list directly, at every depth
Publishable(ts) ==
    /\ \A i \in 1..Len(ts) :
          ts[i].type = "OrderedList" =>
              /\ ts[i].items # <<>>
              /\ \A j \in 1..Len(ts[i].items) : Publishable(ts[i].items[j].children)
    /\ \A i \in 1..(Len(ts) - 1) :
          ~(ts[i].type = "OrderedList" /\ ts[i + 1].type = "OrderedList")

\* C36: the transducer, run over the blocks from_markdown_tag makes of a
\* document in which no list is empty and no two lists are adjacent, does
\* not panic and returns the document.
C36_PublishFetchAgree ==
    (rtpc = "published" /\ Publishable(tags)) =>
        /\ tpc # "panicked"
        /\ tpc = "ended" => output = tags

\* a list with an item that has text and children came back as it was
C36_Witness ==
    /\ rtpc = "published"
    /\ tpc = "ended"
    /\ Publishable(tags)
    /\ output = tags
    /\ \E i \in 1..Len(tags) :
          /\ tags[i].type = "OrderedList"
          /\ \E j \in 1..Len(tags[i].items) :
                /\ tags[i].items[j].children # <<>>
                /\ tags[i].items[j].text # <<>>

(***************************************************************************)
(* The status of the delete responses                                      *)
(***************************************************************************)
\* C37: when erase_page returns Ok no listed child is left on the server,
\* and when the server answered the delete of a listed child with an error
\* response erase_page returns DeleteBlockFailed for a child whose delete
\* did not succeed.
C37_DeleteStatusChecked ==
    /\ (spc = "done" /\ eraseResult.st = "Ok") =>
          \A i \in 1..Len(listed) : listed[i] \notin existing
    /\ (spc = "done" /\ \E k \in 1..Len(del) : del[k] = "http_error") =>
          /\ eraseResult.st = "Err"
          /\ eraseResult.err = "DeleteBlockFailed"
          /\ del[eraseResult.block_id] \in {"http_error", "failed"}

(***************************************************************************)
(* A push of markup that does not parse                                    *)
(***************************************************************************)
\* C38: when the parse of the markup has failed, with an error or a panic,
\* no list, delete or create call has been issued and the container has
\* the children it had.
C38_FailedParseNoCalls ==
    parseResult.st \in {"Err", "Panic"} =>
        /\ calls = <<>>
        /\ existing = 1..initial
        /\ created = <<>>

====
